---------------------------- MODULE Spec2Model ----------------------------
(***************************************************************************)
(* A model of lipgloss (Python port): the colour resolver (renderer.py,    *)
(* color.py), the Style property set and its render pipeline (style.py),   *)
(* the measurement functions (size.py) and the table column optimizer      *)
(* (table/resizing.py).                                                    *)
(*                                                                         *)
(* Representation.  A colour string is a sequence of one-character         *)
(* strings.  An SGR escape "\x1b[p1;p2;...m" is the sequence of its        *)
(* integer parameters; the empty escape "" is <<>>.  An optional value     *)
(* (None, an absent dict key) is a sequence of length 0 or 1.  A text that *)
(* is rendered is a sequence of tokens: [c |-> ch, p |-> <<>>] for the     *)
(* character ch and [c |-> "ESC", p |-> params] for an SGR escape; "W"     *)
(* stands for a double-width glyph and "Z" for a combining mark.           *)
(***************************************************************************)
EXTENDS Integers, Sequences, FiniteSets, TLC

VARIABLES
    \* ---- Renderer (renderer.py) ----
    rProfile,      \* Renderer._color_profile: <<>> (None) or <<profile>>
    rDark,         \* Renderer._has_dark_background: <<>> (None) or <<bool>>
    env,           \* the process environment read by _detect_color_profile
    rlog,          \* the getter and setter calls a caller made on the Renderer
    \* ---- a colour resolution in progress (color.py) ----
    color,         \* the TerminalColor descriptor being resolved
    fgEsc,         \* <<>> or <<result of color.resolve(renderer)>>
    bgEsc,         \* <<>> or <<_fg_to_bg_escape of the resolved escape>>
    \* ---- Resizer (table/resizing.py) ----
    resizer,       \* the Resizer object: table_width, border_column, columns
    col_widths,    \* the local list col_widths of _expand/_shrink_table_width
    pc,            \* position inside Resizer.optimized_widths()
    row_heights_out, \* <<>> or the row heights optimized_widths() returned
    \* ---- Style objects (style.py) ----
    styles,        \* the Style objects created so far; an object is its index
    call,          \* <<>> or the last call on a Style: operation, receiver, result
    \* ---- render calls (style.py, size.py) ----
    text,          \* the string passed to render
    has_wcwidth,   \* TRUE when the wcwidth package can be imported
    renders,       \* the render calls made so far: receiver and outcome
    \* ---- tables (table/rows.py, table/table.py) ----
    data,          \* a StringData and the predicate of a Filter wrapping it
    cell,          \* <<>> or the last at(row, col) call and its outcome
    table,         \* the fields of a Table object
    tout           \* <<>> or << the result of the last str(table) >>

rendererVars == <<rProfile, rDark, env, rlog>>
colorVars == <<color, fgEsc, bgEsc>>
resizeVars == <<resizer, col_widths, pc, row_heights_out>>
styleVars == <<styles, call>>
renderVars == <<text, has_wcwidth, renders>>
tableVars == <<data, cell, table, tout>>
vars == <<rProfile, rDark, env, rlog, color, fgEsc, bgEsc, resizer, col_widths, pc,
          row_heights_out,
          styles, call, text, has_wcwidth, renders, data, cell, table, tout>>

-----------------------------------------------------------------------------
(* Generic helpers on sequences and integers.                              *)

Max(a, b) == IF a >= b THEN a ELSE b
Min(a, b) == IF a <= b THEN a ELSE b

RECURSIVE SumSeq(_)
SumSeq(s) == IF s = <<>> THEN 0 ELSE Head(s) + SumSeq(Tail(s))

RECURSIVE Repeat(_, _)
Repeat(x, n) == IF n <= 0 THEN <<>> ELSE <<x>> \o Repeat(x, n - 1)

\* Python slice s[a:b] with 0 <= a <= b (0-based, end exclusive, clipped).
Slice(s, a, b) == SubSeq(s, a + 1, Min(b, Len(s)))

-----------------------------------------------------------------------------
(* Python int(s, base) and str(n).                                         *)

DigitChars == <<"0", "1", "2", "3", "4", "5", "6", "7", "8", "9",
                "A", "B", "C", "D", "E", "F">>

IsSpaceChar(c) == c \in {" ", "\t", "\n", "\r"}

\* The value of digit c in the given base, or -1 when c is no such digit.
DigitVal(c, base) ==
    IF \E i \in 1..base : DigitChars[i] = c
    THEN (CHOOSE i \in 1..base : DigitChars[i] = c) - 1
    ELSE -1

RECURSIVE LStripSpace(_)
LStripSpace(s) ==
    IF s # <<>> /\ IsSpaceChar(Head(s)) THEN LStripSpace(Tail(s)) ELSE s

RECURSIVE RStripSpace(_)
RStripSpace(s) ==
    IF s # <<>> /\ IsSpaceChar(s[Len(s)])
    THEN RStripSpace(SubSeq(s, 1, Len(s) - 1)) ELSE s

\* str.strip()
Strip(s) == RStripSpace(LStripSpace(s))

\* str.lstrip("#")
RECURSIVE LStripHash(_)
LStripHash(s) ==
    IF s # <<>> /\ Head(s) = "#" THEN LStripHash(Tail(s)) ELSE s

\* The digits of an int literal: non-empty, base digits, single underscores
\* allowed between two digits only.
DigitsWellFormed(d, base) ==
    /\ d # <<>>
    /\ \A i \in 1..Len(d) :
          \/ DigitVal(d[i], base) >= 0
          \/ /\ d[i] = "_"
             /\ 1 < i /\ i < Len(d)
             /\ DigitVal(d[i - 1], base) >= 0
             /\ DigitVal(d[i + 1], base) >= 0

RECURSIVE DigitsValue(_, _, _)
DigitsValue(d, base, acc) ==
    IF d = <<>> THEN acc
    ELSE IF Head(d) = "_" THEN DigitsValue(Tail(d), base, acc)
    ELSE DigitsValue(Tail(d), base, acc * base + DigitVal(Head(d), base))

\* int(s, base): <<n>>, or <<>> when Python raises ValueError.
ParseInt(s, base) ==
    LET t == Strip(s)
        signed == t # <<>> /\ Head(t) \in {"+", "-"}
        d == IF signed THEN Tail(t) ELSE t
    IN  IF ~DigitsWellFormed(d, base) THEN <<>>
        ELSE IF signed /\ Head(t) = "-" THEN << 0 - DigitsValue(d, base, 0) >>
        ELSE << DigitsValue(d, base, 0) >>

RECURSIVE NatToStr(_)
NatToStr(n) ==
    IF n < 10 THEN << DigitChars[n + 1] >>
    ELSE NatToStr(n \div 10) \o << DigitChars[(n % 10) + 1] >>

\* str(n) for an int n
IntToStr(n) == IF n < 0 THEN <<"-">> \o NatToStr(0 - n) ELSE NatToStr(n)

-----------------------------------------------------------------------------
(* renderer.py: colour profiles and conversion helpers.                    *)

ColorProfile == {"TRUE_COLOR", "ANSI256", "ANSI", "ASCII"}

ansi16_fg_escape(idx) ==
    IF idx < 8 THEN << 30 + idx >> ELSE << 90 + idx - 8 >>

\* round(x / y) for x >= 0, y > 0 when x / y is never a tie.
RoundDiv(x, y) == (2 * x + y) \div (2 * y)

rgb_to_ansi256(r, g, b) ==
    IF r = g /\ g = b
    THEN IF r < 8 THEN 16
         ELSE IF r > 248 THEN 231
         ELSE RoundDiv((r - 8) * 24, 247) + 232
    ELSE 16 + 36 * RoundDiv(r * 5, 255) + 6 * RoundDiv(g * 5, 255)
            + RoundDiv(b * 5, 255)

ansi256_to_ansi16(idx) ==
    IF idx < 16 THEN idx
    ELSE IF idx >= 232
    THEN LET level == idx - 232
         IN  IF level < 6 THEN 0
             ELSE IF level < 12 THEN 8
             ELSE IF level < 18 THEN 7
             ELSE 15
    ELSE LET i == idx - 16
             r == (i \div 36) * 51
             g == ((i \div 6) % 6) * 51
             b == (i % 6) * 51
             bright == (r + g + b) > 382
         IN  IF r > g /\ r > b THEN (IF bright THEN 9 ELSE 1)
             ELSE IF g > r /\ g > b THEN (IF bright THEN 10 ELSE 2)
             ELSE IF b > r /\ b > g THEN (IF bright THEN 12 ELSE 4)
             ELSE IF r > b /\ g > b THEN (IF bright THEN 11 ELSE 3)
             ELSE IF r > g /\ b > g THEN (IF bright THEN 13 ELSE 5)
             ELSE IF g > r /\ b > r THEN (IF bright THEN 14 ELSE 6)
             ELSE (IF bright THEN 15 ELSE 0)

\* The outcome of a call that may raise: the returned escape, or raised.
Returned(e) == [raised |-> FALSE, esc |-> e]
RaisedValueError == [raised |-> TRUE, esc |-> <<>>]

\* resolve_hex without the downgrade to the 16 basic colours.
resolve_hex_no_ansi16(profile, hex_val) ==
    IF Len(hex_val) # 6 THEN Returned(<<>>)
    ELSE LET r == ParseInt(Slice(hex_val, 0, 2), 16)
             g == ParseInt(Slice(hex_val, 2, 4), 16)
             b == ParseInt(Slice(hex_val, 4, 6), 16)
         IN  IF r = <<>> \/ g = <<>> \/ b = <<>> THEN RaisedValueError
             ELSE IF profile = "TRUE_COLOR"
             THEN Returned(<<38, 2, r[1], g[1], b[1]>>)
             ELSE Returned(<<38, 5, rgb_to_ansi256(r[1], g[1], b[1])>>)

\* Renderer._resolve_color_string, given the profile color_profile() returned.
resolve_hex(profile, hex_val) ==
    IF Len(hex_val) # 6 THEN Returned(<<>>)
    ELSE LET r == ParseInt(Slice(hex_val, 0, 2), 16)
             g == ParseInt(Slice(hex_val, 2, 4), 16)
             b == ParseInt(Slice(hex_val, 4, 6), 16)
         IN  IF r = <<>> \/ g = <<>> \/ b = <<>> THEN RaisedValueError
             ELSE IF profile = "TRUE_COLOR"
             THEN Returned(<<38, 2, r[1], g[1], b[1]>>)
             ELSE IF profile = "ANSI256"
             THEN Returned(<<38, 5, rgb_to_ansi256(r[1], g[1], b[1])>>)
             ELSE Returned(ansi16_fg_escape(
                     ansi256_to_ansi16(rgb_to_ansi256(r[1], g[1], b[1]))))

\* resolve_index with the basic range taken as 0..16 instead of 0..15.
resolve_index_upto16(profile, color_str) ==
    LET idx == ParseInt(color_str, 10)
    IN  IF idx = <<>> THEN Returned(<<>>)
        ELSE IF idx[1] < 0 THEN Returned(<<>>)
        ELSE IF idx[1] <= 16 THEN Returned(ansi16_fg_escape(idx[1]))
        ELSE IF profile = "ANSI"
        THEN Returned(ansi16_fg_escape(ansi256_to_ansi16(idx[1])))
        ELSE Returned(<<38, 5, idx[1]>>)

resolve_index(profile, color_str) ==
    LET idx == ParseInt(color_str, 10)
    IN  IF idx = <<>> THEN Returned(<<>>)
        ELSE IF idx[1] < 0 THEN Returned(<<>>)
        ELSE IF idx[1] < 16 THEN Returned(ansi16_fg_escape(idx[1]))
        ELSE IF profile = "ANSI"
        THEN Returned(ansi16_fg_escape(ansi256_to_ansi16(idx[1])))
        ELSE Returned(<<38, 5, idx[1]>>)

resolve_color_string(profile, s) ==
    IF profile = "ASCII" THEN Returned(<<>>)
    ELSE LET color_str == Strip(s)
         IN  IF color_str # <<>> /\ Head(color_str) = "#"
             THEN resolve_hex(profile, LStripHash(color_str))
             ELSE resolve_index(profile, color_str)


-----------------------------------------------------------------------------
(* renderer.py: the Renderer's lazily detected, overridable state.         *)

\* Environments: NO_COLOR set or not, the lower-cased COLORTERM and
\* TERM_PROGRAM, TERM, and whether the output stream is a tty.
Envs == {
    [NO_COLOR |-> TRUE,  COLORTERM |-> "truecolor", TERM |-> "xterm-256color",
     TERM_PROGRAM |-> "", isatty |-> TRUE],
    [NO_COLOR |-> FALSE, COLORTERM |-> "truecolor", TERM |-> "xterm",
     TERM_PROGRAM |-> "", isatty |-> TRUE],
    [NO_COLOR |-> FALSE, COLORTERM |-> "", TERM |-> "xterm-256color",
     TERM_PROGRAM |-> "", isatty |-> TRUE],
    [NO_COLOR |-> FALSE, COLORTERM |-> "", TERM |-> "xterm",
     TERM_PROGRAM |-> "", isatty |-> TRUE],
    [NO_COLOR |-> FALSE, COLORTERM |-> "", TERM |-> "dumb",
     TERM_PROGRAM |-> "", isatty |-> FALSE] }

Has256color(term) == term \in {"xterm-256color", "screen-256color"}
StartsWithXtermDash(term) == term \in {"xterm-256color", "xterm-kitty"}

detect_color_profile(e) ==
    IF e.NO_COLOR THEN "ASCII"
    ELSE IF e.COLORTERM \in {"truecolor", "24bit"} THEN "TRUE_COLOR"
    ELSE IF Has256color(e.TERM) \/ e.TERM_PROGRAM \in {"iterm.app", "hyper"}
    THEN "ANSI256"
    ELSE IF e.TERM \in {"xterm", "screen", "vt100", "rxvt"}
            \/ StartsWithXtermDash(e.TERM)
    THEN "ANSI"
    ELSE IF ~e.isatty THEN "ASCII"
    ELSE "ANSI256"

detect_dark_background == TRUE

\* A color_profile() that detects the profile on every call.
color_profile_uncached(cache, e) == detect_color_profile(e)

\* Renderer.color_profile(): the value returned and the cache afterwards.
color_profile(cache, e) ==
    IF cache = <<>> THEN detect_color_profile(e) ELSE cache[1]

\* A has_dark_background() that does not read the cached value.
has_dark_background_uncached(cache) == detect_dark_background

\* Renderer.has_dark_background()
has_dark_background(cache) ==
    IF cache = <<>> THEN detect_dark_background ELSE cache[1]

-----------------------------------------------------------------------------
(* color.py: the TerminalColor variants and their resolve().               *)

NoColor == [kind |-> "NoColor"]
Color(s) == [kind |-> "Color", s |-> s]
ANSIColor(n) == [kind |-> "ANSIColor", n |-> n]
AdaptiveColor(l, d) == [kind |-> "AdaptiveColor", light |-> l, dark |-> d]
CompleteColor(t, a256, a) ==
    [kind |-> "CompleteColor", true_color |-> t, ansi256 |-> a256, ansi |-> a]
CompleteAdaptiveColor(l, d) ==
    [kind |-> "CompleteAdaptiveColor", light |-> l, dark |-> d]

\* Which Renderer getters a resolve() of descriptor c calls.
CallsColorProfile(c) == c.kind # "NoColor"
CallsHasDark(c) == c.kind \in {"AdaptiveColor", "CompleteAdaptiveColor"}

complete_color_resolve(c, profile) ==
    IF profile = "TRUE_COLOR" THEN resolve_color_string(profile, c.true_color)
    ELSE IF profile = "ANSI256" THEN resolve_color_string(profile, c.ansi256)
    ELSE IF profile = "ANSI" THEN resolve_color_string(profile, c.ansi)
    ELSE Returned(<<>>)

\* c.resolve(renderer), with the values the renderer's getters return.
resolve(c, profile, dark) ==
    CASE c.kind = "NoColor" -> Returned(<<>>)
      [] c.kind = "Color" -> resolve_color_string(profile, c.s)
      [] c.kind = "ANSIColor" -> resolve_color_string(profile, IntToStr(c.n))
      [] c.kind = "AdaptiveColor" ->
            IF dark THEN resolve_color_string(profile, c.dark)
            ELSE resolve_color_string(profile, c.light)
      [] c.kind = "CompleteColor" -> complete_color_resolve(c, profile)
      [] c.kind = "CompleteAdaptiveColor" ->
            IF dark THEN complete_color_resolve(c.dark, profile)
            ELSE complete_color_resolve(c.light, profile)

-----------------------------------------------------------------------------
(* style.py: SGR parameter extraction and the background transform.        *)

\* _extract_sgr_params: the parameters of "\x1b[...m"; the regular
\* expression [0-9;]* matches no minus sign, so an escape formatted from a
\* negative number yields no parameters.
extract_sgr_params(escape) ==
    IF escape = <<>> THEN <<>>
    ELSE IF \E i \in 1..Len(escape) : escape[i] < 0 THEN <<>>
    ELSE escape

RECURSIVE fg_to_bg_params(_, _)
fg_to_bg_params(params, i) ==
    IF i > Len(params) THEN <<>>
    ELSE LET p == params[i]
         IN  IF p = 38 /\ i < Len(params)
             THEN <<48>> \o fg_to_bg_params(params, i + 1)
             ELSE IF 30 <= p /\ p <= 37
             THEN <<p + 10>> \o fg_to_bg_params(params, i + 1)
             ELSE IF 90 <= p /\ p <= 97
             THEN <<p + 10>> \o fg_to_bg_params(params, i + 1)
             ELSE <<p>> \o fg_to_bg_params(params, i + 1)

fg_to_bg_escape(fg_escape) ==
    IF fg_escape = <<>> THEN <<>>
    ELSE LET params == extract_sgr_params(fg_escape)
         IN  IF params = <<>> THEN <<>> ELSE fg_to_bg_params(params, 1)

-----------------------------------------------------------------------------
(* Colour inputs.                                                          *)

\* Two-character byte spellings used to build #RRGGBB strings:
\* 0x00, 0x23 = 35, 0x5F = 95, 0xFF.
HexPairs == { <<"0", "0">>, <<"2", "3">>, <<"5", "F">>, <<"F", "F">> }

HexStrings == { <<"#">> \o a \o b \o c : a \in HexPairs, b \in HexPairs, c \in HexPairs }

\* Colour indexes: the 16 basics, cube and gray-ramp entries, and beyond.
Indexes == (0..16) \cup {35, 95, 200, 231, 232, 243, 255, 300}

IndexStrings == { IntToStr(n) : n \in Indexes }

\* Strings that are neither #RRGGBB nor a plain non-negative decimal.
MalformedStrings == {
    <<"#", "G", "G", "0", "0", "0", "0">>,
    <<"#", "F", "F", "0", "0">>,
    <<"#", "F", "F", "0", "0", "0", "0", "0">>,
    <<"#">>,
    <<"G", "G">>,
    <<"-", "3">>,
    <<"1", "2", "G">>,
    <<>> }

ColorInputs ==
    {NoColor}
    \cup { Color(s) : s \in HexStrings \cup IndexStrings \cup MalformedStrings }
    \cup { ANSIColor(n) : n \in Indexes \cup {-1} }
    \cup { AdaptiveColor(<<"3", "5">>, <<"#", "0", "0", "2", "3", "F", "F">>),
           AdaptiveColor(<<"#", "F", "F", "0", "0", "0", "0">>, <<"9">>) }
    \cup { CompleteColor(<<"#", "0", "0", "0", "0", "F", "F">>, <<"9", "5">>, <<"5">>) }
    \cup { CompleteAdaptiveColor(
              CompleteColor(<<"#", "2", "3", "F", "F", "0", "0">>, <<"2", "0", "0">>, <<"1", "1">>),
              CompleteColor(<<"#", "5", "F", "0", "0", "5", "F">>, <<"3", "5">>, <<"5">>)) }

-----------------------------------------------------------------------------
(* Actions of the colour resolver.                                         *)

\* Values of the variables of a subsystem that a specification does not run.
RendererIdle ==
    /\ rProfile = <<>>
    /\ rDark = <<>>
    /\ env = [NO_COLOR |-> FALSE, COLORTERM |-> "", TERM |-> "", TERM_PROGRAM |-> "",
              isatty |-> FALSE]
    /\ rlog = <<>>
ColorIdle == color = NoColor /\ fgEsc = <<>> /\ bgEsc = <<>>
ResizeIdle == resizer = <<>> /\ col_widths = <<>> /\ pc = "idle" /\ row_heights_out = <<>>
StyleIdle == styles = <<>> /\ call = <<>>
RenderIdle == text = <<>> /\ has_wcwidth = FALSE /\ renders = <<>>
TableIdle == data = <<>> /\ cell = <<>> /\ table = <<>> /\ tout = <<>>

RendererInit == rProfile = <<>> /\ rDark = <<>> /\ env \in Envs /\ rlog = <<>>

\* Renderer.set_color_profile(profile)
SetColorProfile(p) ==
    /\ rProfile' = <<p>>
    /\ UNCHANGED <<rDark, env, rlog, color, fgEsc, bgEsc, resizeVars, styleVars,
                   renderVars, tableVars>>

\* Renderer.set_dark_background(dark)
SetDarkBackground(d) ==
    /\ rDark' = <<d>>
    /\ UNCHANGED <<rProfile, env, rlog, color, fgEsc, bgEsc, resizeVars, styleVars,
                   renderVars, tableVars>>

\* color.resolve(renderer): the getters it calls detect and cache on first use.
Resolve ==
    LET profile == color_profile(rProfile, env)
        dark == has_dark_background(rDark)
    IN  /\ fgEsc' = << [profile |-> profile, dark |-> dark,
                        out |-> resolve(color, profile, dark)] >>
        /\ bgEsc' = <<>>
        /\ rProfile' = IF CallsColorProfile(color) THEN <<profile>> ELSE rProfile
        /\ rDark' = IF CallsHasDark(color) THEN <<dark>> ELSE rDark
        /\ UNCHANGED <<env, rlog, color, resizeVars, styleVars, renderVars, tableVars>>

\* _fg_to_bg_escape(bg_esc), as Style.render applies it to a resolved colour.
ToBackground ==
    /\ fgEsc # <<>>
    /\ ~fgEsc[1].out.raised
    /\ bgEsc = <<>>
    /\ bgEsc' = << fg_to_bg_escape(fgEsc[1].out.esc) >>
    /\ UNCHANGED <<rProfile, rDark, env, rlog, color, fgEsc, resizeVars, styleVars,
                   renderVars, tableVars>>

\* The colour to resolve is an input, drawn from ColorInputs.
ColorInit ==
    /\ RendererInit
    /\ color \in ColorInputs
    /\ fgEsc = <<>>
    /\ bgEsc = <<>>
    /\ ResizeIdle
    /\ StyleIdle
    /\ RenderIdle
    /\ TableIdle

ColorNext ==
    \/ \E p \in ColorProfile : SetColorProfile(p)
    \/ \E d \in BOOLEAN : SetDarkBackground(d)
    \/ Resolve
    \/ ToBackground

SpecColor == ColorInit /\ [][ColorNext]_vars


-----------------------------------------------------------------------------
(* Claims about the colour resolver.                                       *)

\* The descriptor is a numeric colour index n >= 0: ANSIColor(n) or
\* Color(str(n)).
IsIndexColor(c) ==
    \/ c.kind = "ANSIColor" /\ c.n >= 0
    \/ c.kind = "Color" /\ c.s \in IndexStrings

IndexOf(c) ==
    IF c.kind = "ANSIColor" THEN c.n
    ELSE CHOOSE n \in Indexes : IntToStr(n) = c.s

BasicEscape(n) == IF n < 8 THEN << 30 + n >> ELSE << 90 + (n - 8) >>

\* The escape is the selector-only background form of fg.
SelectorOnly(fg, bg) ==
    \/ fg = <<>> /\ bg = <<>>
    \/ /\ Len(fg) = 1
       /\ fg[1] \in (30..37) \cup (90..97)
       /\ bg = << fg[1] + 10 >>
    \/ /\ Len(fg) >= 2
       /\ fg[1] = 38
       /\ bg = <<48>> \o Tail(fg)

\* C8: the background escape of a colour is its foreground escape with only
\* the colour selector changed (38 to 48, 30-37 to 40-47, 90-97 to 100-107);
\* the palette index or R;G;B payload is the same in both forms.
C8_BackgroundIsSelectorOnly ==
    bgEsc # <<>> => SelectorOnly(fgEsc[1].out.esc, bgEsc[1])

\* C9: a numeric index n in 0-15 resolves to the basic escape 30+n / 90+(n-8)
\* at every profile but ASCII; n >= 16 resolves to 38;5;n at ANSI256 and
\* TrueColor and to the basic escape of the 256-to-16 downgrade at ANSI16;
\* at ASCII every index resolves to the empty string.
C9_IndexResolution ==
    (fgEsc # <<>> /\ IsIndexColor(color)) =>
        LET n == IndexOf(color)
            p == fgEsc[1].profile
            out == fgEsc[1].out
        IN  /\ ~out.raised
            /\ out.esc = CASE p = "ASCII" -> <<>>
                           [] p # "ASCII" /\ n < 16 -> BasicEscape(n)
                           [] p = "ANSI" /\ n >= 16 ->
                                 BasicEscape(ansi256_to_ansi16(n))
                           [] OTHER -> <<38, 5, n>>

\* C9 witness: index 200 resolved at ANSI16 gave the basic escape 91, and
\* index 16 resolved at ANSI256 gave 38;5;16.
C9_Witness ==
    /\ fgEsc # <<>>
    /\ \/ /\ color = Color(<<"2", "0", "0">>)
          /\ fgEsc[1].profile = "ANSI"
          /\ fgEsc[1].out.esc = <<91>>
       \/ /\ color = ANSIColor(16)
          /\ fgEsc[1].profile = "ANSI256"
          /\ fgEsc[1].out.esc = <<38, 5, 16>>

IsHexDigit(c) == DigitVal(c, 16) >= 0
IsDecDigit(c) == DigitVal(c, 10) >= 0

\* A well-formed #RRGGBB value or a non-negative decimal index.
WellFormedColorString(s) ==
    \/ /\ Len(s) = 7
       /\ s[1] = "#"
       /\ \A i \in 2..7 : IsHexDigit(s[i])
    \/ /\ s # <<>>
       /\ \A i \in 1..Len(s) : IsDecDigit(s[i])

\* C10: colour resolution never raises, and a colour string that is neither
\* a well-formed #RRGGBB value nor a non-negative decimal index resolves to
\* the empty escape at every profile.
C10_MalformedResolvesEmpty ==
    (fgEsc # <<>> /\ color.kind = "Color" /\ ~WellFormedColorString(color.s)) =>
        /\ ~fgEsc[1].out.raised
        /\ fgEsc[1].out.esc = <<>>

\* The descriptor is Color("#RRGGBB") with six hex digits.
IsHexColor(c) == c.kind = "Color" /\ c.s \in HexStrings

\* The rank of a profile along TrueColor, ANSI256, ANSI16, ASCII.
ProfileRank(p) ==
    CASE p = "TRUE_COLOR" -> 0 [] p = "ANSI256" -> 1 [] p = "ANSI" -> 2 [] OTHER -> 3

\* C11: a hex colour resolves to 38;2;R;G;B at TrueColor, to 38;5;N at
\* ANSI256, to a single basic code at ANSI16 and to the empty string at
\* ASCII, and at no lesser profile does it resolve to more SGR parameters
\* than at the profile it was resolved at.
C11_DegradationMonotone ==
    (fgEsc # <<>> /\ IsHexColor(color)) =>
        LET p == fgEsc[1].profile
            esc == fgEsc[1].out.esc
        IN  /\ ~fgEsc[1].out.raised
            /\ CASE p = "TRUE_COLOR" -> Len(esc) = 5 /\ esc[1] = 38 /\ esc[2] = 2
                 [] p = "ANSI256" -> Len(esc) = 3 /\ esc[1] = 38 /\ esc[2] = 5
                 [] p = "ANSI" -> Len(esc) = 1 /\ esc[1] \in (30..37) \cup (90..97)
                 [] OTHER -> esc = <<>>
            /\ \A q \in ColorProfile :
                   ProfileRank(q) >= ProfileRank(p) =>
                       Len(resolve(color, q, fgEsc[1].dark).esc) <= Len(esc)

\* C11 witness: #5F00FF was resolved at ANSI16 and gave one basic code.
C11_Witness ==
    /\ fgEsc # <<>>
    /\ color = Color(<<"#", "5", "F", "0", "0", "F", "F">>)
    /\ fgEsc[1].profile = "ANSI"
    /\ Len(fgEsc[1].out.esc) = 1

-----------------------------------------------------------------------------
(* table/resizing.py: the column width optimizer.  A cell is represented   *)
(* by its visible width; a row is a sequence of cells, a table a sequence  *)
(* of rows.  List indexes are 1-based here (Python's col j is j + 1), and  *)
(* the "no candidate" index -1 of the shrink passes is 0.                  *)

RECURSIVE Insert(_, _)
Insert(v, sorted) ==
    IF sorted = <<>> THEN <<v>>
    ELSE IF v <= Head(sorted) THEN <<v>> \o sorted
    ELSE <<Head(sorted)>> \o Insert(v, Tail(sorted))

RECURSIVE Sorted(_)
Sorted(values) ==
    IF values = <<>> THEN <<>> ELSE Insert(Head(values), Sorted(Tail(values)))

\* _median(values)
median(values) ==
    IF values = <<>> THEN 0
    ELSE LET sorted_vals == Sorted(values)
             n == Len(sorted_vals)
             mid == n \div 2
         IN  IF n % 2 = 1 THEN sorted_vals[mid + 1]
             ELSE (sorted_vals[mid] + sorted_vals[mid + 1]) \div 2

\* _ResizerColumn(index, min_w, max_w, median_w)
ResizerColumn(index, min_w, max_w, median_w) ==
    [index |-> index, min |-> min_w, max |-> max_w, median |-> median_w,
     rows |-> <<>>, x_padding |-> 0, fixed_width |-> 0]

\* Resizer.__init__, the statistics loop: one cell of one row.
AddCell(columns, row, i) ==
    LET cell_len == row[i]
    IN  IF Len(columns) < i
        THEN Append(columns, ResizerColumn(i, cell_len, cell_len, cell_len))
        ELSE [columns EXCEPT
                 ![i].rows = Append(@, row),
                 ![i].min = Min(@, cell_len),
                 ![i].max = Max(@, cell_len)]

RECURSIVE AddRow(_, _, _)
AddRow(columns, row, i) ==
    IF i > Len(row) THEN columns
    ELSE AddRow(AddCell(columns, row, i), row, i + 1)

RECURSIVE AddRows(_, _)
AddRows(columns, rows) ==
    IF rows = <<>> THEN columns
    ELSE AddRows(AddRow(columns, Head(rows), 1), Tail(rows))

\* Resizer.__init__, the median loop.
WithMedian(col) ==
    LET widths == [k \in 1..Len(col.rows) |-> col.rows[k][col.index]]
    IN  [col EXCEPT !.median = median(widths)]

\* Resizer(table_width, table_height, headers, rows): all_rows is the header
\* row, when there is one, followed by the data rows.
NewResizer(table_width, headers, rows) ==
    LET all_rows == IF headers # <<>> THEN <<headers>> \o rows ELSE rows
        columns == AddRows(<<>>, all_rows)
    IN  [table_width |-> table_width,
         has_headers |-> headers # <<>>,
         all_rows |-> all_rows,
         row_heights |-> <<>>,
         wrap |-> FALSE,
         border_column |-> TRUE,
         y_paddings |-> <<>>,
         columns |-> [j \in 1..Len(columns) |-> WithMedian(columns[j])]]

\* Table._resize: the per-cell style hints of column j are folded into the
\* column with max(); hints[j] is that maximum for column j.
WithHints(r, border_column, hints) ==
    [r EXCEPT
        !.border_column = border_column,
        !.columns = [j \in 1..Len(r.columns) |->
            [r.columns[j] EXCEPT
                !.x_padding = Max(@, hints[j].x_padding),
                !.fixed_width = Max(@, hints[j].width)]]]

\* Table._resize, the rows: wrap, and for every row the style hints of its
\* cells.  row_hints[i] is the height and the vertical padding + margin of
\* the style of the cells of row i of all_rows.
WithRowHints(r, wrap, row_hints) ==
    [r EXCEPT
        !.wrap = wrap,
        !.row_heights = [i \in 1..Len(r.all_rows) |->
            IF r.all_rows[i] = <<>> THEN 1 ELSE Max(1, row_hints[i].height)],
        !.y_paddings = [i \in 1..Len(r.all_rows) |->
            [j \in 1..Len(r.all_rows[i]) |-> row_hints[i].y_padding]]]

x_padding_for_col(r, j) ==
    IF j > Len(r.columns) THEN 0 ELSE r.columns[j].x_padding

border_per_cell(r) == IF r.border_column THEN 1 ELSE 0
extra_border(r) == IF r.border_column THEN 1 ELSE 0

total_horizontal_border(r) ==
    Len(r.columns) * border_per_cell(r) + extra_border(r)

total_horizontal_padding(r) ==
    SumSeq([j \in 1..Len(r.columns) |-> r.columns[j].x_padding])

max_column_widths(r) ==
    [j \in 1..Len(r.columns) |->
        IF r.columns[j].fixed_width > 0 THEN r.columns[j].fixed_width
        ELSE r.columns[j].max + x_padding_for_col(r, r.columns[j].index)]

max_char_count(r) ==
    SumSeq([j \in 1..Len(r.columns) |->
        IF r.columns[j].fixed_width > 0
        THEN r.columns[j].fixed_width - x_padding_for_col(r, r.columns[j].index)
        ELSE r.columns[j].max])

max_total(r) ==
    SumSeq([j \in 1..Len(r.columns) |->
        IF r.columns[j].fixed_width > 0 THEN r.columns[j].fixed_width
        ELSE r.columns[j].max + x_padding_for_col(r, j)])

detect_table_width(r) ==
    max_char_count(r) + total_horizontal_padding(r) + total_horizontal_border(r)

total_width(r, cw) == SumSeq(cw) + total_horizontal_border(r)


BIG == 2147483647

\* _expand_table_width, the scan for the narrowest column: the columns whose
\* width equals their fixed_width are skipped; shorter_idx starts at the
\* first column and stays there when every column is skipped.
RECURSIVE shorter_scan(_, _, _, _, _)
shorter_scan(r, cw, j, shorter_idx, shorter_width) ==
    IF j > Len(cw) THEN shorter_idx
    ELSE IF cw[j] = r.columns[j].fixed_width
         THEN shorter_scan(r, cw, j + 1, shorter_idx, shorter_width)
    ELSE IF cw[j] < shorter_width
         THEN shorter_scan(r, cw, j + 1, j, cw[j])
    ELSE shorter_scan(r, cw, j + 1, shorter_idx, shorter_width)

\* shrink_biggest(very_big_only), the scan for the widest column.
RECURSIVE big_scan(_, _, _, _, _, _)
big_scan(r, cw, very_big_only, j, big_idx, big_width) ==
    IF j > Len(cw) THEN big_idx
    ELSE IF cw[j] = r.columns[j].fixed_width
         THEN big_scan(r, cw, very_big_only, j + 1, big_idx, big_width)
    ELSE IF very_big_only
         THEN IF cw[j] >= r.table_width \div 2 /\ cw[j] > big_width
              THEN big_scan(r, cw, very_big_only, j + 1, j, cw[j])
              ELSE big_scan(r, cw, very_big_only, j + 1, big_idx, big_width)
    ELSE IF cw[j] > big_width
         THEN big_scan(r, cw, very_big_only, j + 1, j, cw[j])
    ELSE big_scan(r, cw, very_big_only, j + 1, big_idx, big_width)

\* The scan of shrink_to_median without the test diff > 0.
RECURSIVE diff_scan_any(_, _, _, _, _)
diff_scan_any(r, cw, j, biggest_diff_idx, biggest_diff) ==
    IF j > Len(cw) THEN biggest_diff_idx
    ELSE IF cw[j] = r.columns[j].fixed_width
         THEN diff_scan_any(r, cw, j + 1, biggest_diff_idx, biggest_diff)
    ELSE LET diff == cw[j] - r.columns[j].median
         IN  IF diff > biggest_diff
             THEN diff_scan_any(r, cw, j + 1, j, diff)
             ELSE diff_scan_any(r, cw, j + 1, biggest_diff_idx, biggest_diff)

\* shrink_to_median, the scan for the largest positive width - median.
RECURSIVE diff_scan(_, _, _, _, _)
diff_scan(r, cw, j, biggest_diff_idx, biggest_diff) ==
    IF j > Len(cw) THEN biggest_diff_idx
    ELSE IF cw[j] = r.columns[j].fixed_width
         THEN diff_scan(r, cw, j + 1, biggest_diff_idx, biggest_diff)
    ELSE LET diff == cw[j] - r.columns[j].median
         IN  IF diff > 0 /\ diff > biggest_diff
             THEN diff_scan(r, cw, j + 1, j, diff)
             ELSE diff_scan(r, cw, j + 1, biggest_diff_idx, biggest_diff)

\* _word_wrap_height(content, col_width) for a cell of one line of visible
\* width vis: math.ceil(vis / col_width), 1 for an empty line.
word_wrap_height(vis, col_width) ==
    IF col_width <= 0 THEN 1
    ELSE IF vis = 0 THEN 1
    ELSE (vis + col_width - 1) \div col_width

default_row_heights(r) ==
    [i \in 1..Len(r.all_rows) |->
        Max(IF i <= Len(r.row_heights) THEN r.row_heights[i] ELSE 0, 1)]

x_padding_for_cell(r, i, j) ==
    IF i > Len(r.y_paddings) THEN 0
    ELSE IF j > Len(r.y_paddings[i]) THEN 0
    ELSE r.y_paddings[i][j]

\* _expand_row_heights(col_widths): the loop over the cells of row i, from
\* cell j on, h being row_heights[i] so far.
RECURSIVE expand_row_height(_, _, _, _, _)
expand_row_height(r, cw, i, j, h) ==
    IF j > Len(r.all_rows[i]) THEN h
    ELSE IF (r.has_headers /\ i = 1) \/ j > Len(cw)
         THEN expand_row_height(r, cw, i, j + 1, h)
    ELSE LET avail == cw[j] - x_padding_for_col(r, j)
             cell_h == word_wrap_height(r.all_rows[i][j], avail)
                       + x_padding_for_cell(r, i, j)
         IN  expand_row_height(r, cw, i, j + 1, Max(h, cell_h))

expand_row_heights(r, cw) ==
    IF ~r.wrap THEN default_row_heights(r)
    ELSE [i \in 1..Len(r.all_rows) |->
            expand_row_height(r, cw, i, 1, default_row_heights(r)[i])]

\* Resizer.optimized_widths(), up to the choice of the branch.
OptimizedWidths ==
    /\ pc = "start"
    /\ LET tw == IF resizer.table_width <= 0 THEN detect_table_width(resizer)
                 ELSE resizer.table_width
           r == [resizer EXCEPT !.table_width = tw]
       IN  /\ resizer' = r
           /\ col_widths' = max_column_widths(r)
           /\ pc' = IF max_total(r) <= tw THEN "expand" ELSE "shrink_very_big"
    /\ UNCHANGED <<rendererVars, colorVars, row_heights_out, styleVars, renderVars, tableVars>>

\* One iteration of the loop of _expand_table_width.  With no column at all
\* col_widths[shorter_idx] is an IndexError.
ExpandStep ==
    /\ pc = "expand"
    /\ IF total_width(resizer, col_widths) >= resizer.table_width
       THEN /\ pc' = "done"
            /\ row_heights_out' = expand_row_heights(resizer, col_widths)
            /\ UNCHANGED col_widths
       ELSE IF col_widths = <<>>
       THEN pc' = "IndexError" /\ UNCHANGED <<col_widths, row_heights_out>>
       ELSE LET shorter_idx == shorter_scan(resizer, col_widths, 1, 1, BIG)
            IN  /\ col_widths' = [col_widths EXCEPT ![shorter_idx] = @ + 1]
                /\ pc' = pc
                /\ UNCHANGED row_heights_out
    /\ UNCHANGED <<rendererVars, colorVars, resizer, styleVars, renderVars, tableVars>>

\* One iteration of the loop of shrink_biggest(very_big_only); a break moves
\* on to what _shrink_table_width runs next.
ShrinkBiggestStep(very_big_only) ==
    /\ pc = IF very_big_only THEN "shrink_very_big" ELSE "shrink_biggest"
    /\ LET big_idx == big_scan(resizer, col_widths, very_big_only, 1, 0, -BIG - 1)
           after == IF very_big_only THEN "shrink_to_median" ELSE "done"
           returned == IF very_big_only THEN row_heights_out
                       ELSE expand_row_heights(resizer, col_widths)
       IN  IF total_width(resizer, col_widths) <= resizer.table_width
           THEN pc' = after /\ row_heights_out' = returned /\ UNCHANGED col_widths
           ELSE IF big_idx < 1 \/ col_widths[big_idx] = 0
           THEN pc' = after /\ row_heights_out' = returned /\ UNCHANGED col_widths
           ELSE /\ col_widths' = [col_widths EXCEPT ![big_idx] = @ - 1]
                /\ pc' = pc
                /\ UNCHANGED row_heights_out
    /\ UNCHANGED <<rendererVars, colorVars, resizer, styleVars, renderVars, tableVars>>

\* One iteration of the loop of shrink_to_median().
ShrinkToMedianStep ==
    /\ pc = "shrink_to_median"
    /\ LET biggest_diff_idx == diff_scan(resizer, col_widths, 1, 0, -BIG - 1)
       IN  IF total_width(resizer, col_widths) <= resizer.table_width
           THEN pc' = "shrink_biggest" /\ UNCHANGED col_widths
           ELSE IF biggest_diff_idx < 1 \/ col_widths[biggest_diff_idx] = 0
           THEN pc' = "shrink_biggest" /\ UNCHANGED col_widths
           ELSE /\ col_widths' = [col_widths EXCEPT ![biggest_diff_idx] = @ - 1]
                /\ pc' = pc
    /\ UNCHANGED <<rendererVars, colorVars, resizer, row_heights_out, styleVars, renderVars,
                   tableVars>>

\* Tables (header row, data rows) the optimizer is run on.
MaxTableWidth == 26
MaxFixedWidth == 4

Tables ==
    { [headers |-> <<>>, rows |-> <<>>],
      [headers |-> <<>>, rows |-> << <<5>> >>],
      [headers |-> <<>>, rows |-> << <<2, 2>> >>],
      [headers |-> <<>>, rows |-> << <<0, 2>> >>],
      [headers |-> <<3, 2>>, rows |-> << <<1, 4>>, <<2, 0>> >>],
      [headers |-> <<1, 1, 1>>, rows |-> << <<20, 5, 5>>, <<8, 5, 3>>, <<2, 1, 5>> >>],
      [headers |-> <<1, 1, 1>>, rows |-> << <<20, 5, 5>>, <<20, 1, 1>>, <<20, 1, 1>> >>],
      [headers |-> <<>>, rows |-> << <<10, 2>>, <<3>>, <<1, 7>> >>] }

\* The style hints of a column: horizontal padding + margin, and width.
Hints == { [x_padding |-> p, width |-> w] : p \in {0, 1}, w \in {0, MaxFixedWidth, 10} }

NumColumns(t) == Len(NewResizer(0, t.headers, t.rows).columns)

ResizeInit ==
    /\ RendererIdle
    /\ ColorIdle
    /\ \E t \in Tables, border_column \in BOOLEAN, table_width \in 0..MaxTableWidth :
       \E hints \in [1..NumColumns(t) -> Hints] :
          resizer = WithHints(NewResizer(table_width, t.headers, t.rows),
                              border_column, hints)
    /\ col_widths = <<>>
    /\ pc = "start"
    /\ row_heights_out = <<>>
    /\ StyleIdle
    /\ RenderIdle
    /\ TableIdle

ResizeNext ==
    \/ OptimizedWidths
    \/ ExpandStep
    \/ \E very_big_only \in BOOLEAN : ShrinkBiggestStep(very_big_only)
    \/ ShrinkToMedianStep

SpecResize == ResizeInit /\ [][ResizeNext]_vars

\* The optimizer run by a Table with wrapping and per-row style hints.
MaxHeightsWidth == 9
MaxRowHeightHint == 2
MaxYPadding == 1

HeightTables ==
    { [headers |-> <<3, 2>>, rows |-> << <<1, 4>>, <<2, 0>> >>],
      [headers |-> <<>>, rows |-> << <<5>>, <<2>> >>],
      [headers |-> <<6>>, rows |-> << <<3>> >>] }

RowHints == { [height |-> h, y_padding |-> p] :
                h \in {0, MaxRowHeightHint}, p \in 0..MaxYPadding }

HeightsInit ==
    /\ RendererIdle
    /\ ColorIdle
    /\ \E t \in HeightTables, wrap \in BOOLEAN, table_width \in 0..MaxHeightsWidth :
       LET r == NewResizer(table_width, t.headers, t.rows)
       IN  \E row_hints \in [1..Len(r.all_rows) -> RowHints] :
              resizer = WithRowHints(r, wrap, row_hints)
    /\ col_widths = <<>>
    /\ pc = "start"
    /\ row_heights_out = <<>>
    /\ StyleIdle
    /\ RenderIdle
    /\ TableIdle

SpecHeights == HeightsInit /\ [][ResizeNext]_vars


-----------------------------------------------------------------------------
(* Claims about the column width optimizer.                                *)

\* C6: for N columns and a requested table width W_req >= N, the widths
\* returned by optimized_widths() plus the border overhead sum to exactly
\* W_req.  Stated for the tables where nothing stands in the way of W_req:
\* no column has a fixed-width override, and W_req is at least the border
\* overhead, so that some widths >= 0 do sum to W_req.
C6_WidthsSumToRequested ==
    ( /\ pc = "done"
      /\ resizer.table_width >= Len(resizer.columns)
      /\ resizer.table_width >= total_horizontal_border(resizer)
      /\ \A j \in 1..Len(resizer.columns) : resizer.columns[j].fixed_width = 0 ) =>
        total_width(resizer, col_widths) = resizer.table_width

\* C7: a column with a fixed-width override has exactly that width in the
\* result of optimized_widths(), in the expand and in the shrink branch.
C7_FixedWidthKept ==
    pc = "done" =>
        \A j \in 1..Len(resizer.columns) :
            resizer.columns[j].fixed_width > 0 =>
                col_widths[j] = resizer.columns[j].fixed_width


\* C21: optimized_widths() takes the expand branch exactly when the natural
\* width (content widths plus column padding plus border overhead, what
\* detect_table_width() computes) is at most the target width, and the
\* shrink branch otherwise.
C21_BranchByNaturalWidth ==
    /\ pc = "expand" => detect_table_width(resizer) <= resizer.table_width
    /\ pc = "shrink_very_big" => detect_table_width(resizer) > resizer.table_width

\* The columns without a fixed-width override, and the narrowest of them
\* with the lowest index.
NonFixed(r) == { j \in 1..Len(r.columns) : r.columns[j].fixed_width = 0 }

NarrowestNonFixed(r, cw) ==
    { j \in NonFixed(r) :
        /\ \A k \in NonFixed(r) : cw[j] <= cw[k]
        /\ \A k \in NonFixed(r) : k < j => cw[k] > cw[j] }

\* The expand branch was taken, and the columns it has grown.
Expanded(r) == max_total(r) <= r.table_width
Grown(r, cw) == { j \in 1..Len(cw) : cw[j] > max_column_widths(r)[j] }

\* C22: each expand step adds 1 to the narrowest column without a
\* fixed-width override, whatever its width, the lowest index winning ties;
\* once the expansion is done the grown columns without an override differ in
\* width by at most 1.
C22_ExpandNarrowest ==
    /\ [][ (pc = "expand" /\ col_widths' # col_widths) =>
             \E j \in NarrowestNonFixed(resizer, col_widths) :
                 col_widths' = [col_widths EXCEPT ![j] = @ + 1] ]_vars
    /\ []( (pc = "done" /\ Expanded(resizer)) =>
             \A j, k \in Grown(resizer, col_widths) \cap NonFixed(resizer) :
                 col_widths[j] - col_widths[k] <= 1 )


\* The candidates of the three shrink passes: the widest columns without an
\* override among those at least half the target wide; the columns without
\* an override with the largest positive width - median; the widest columns
\* without an override.
VeryBig(r, cw) == { j \in NonFixed(r) : cw[j] >= r.table_width \div 2 }
Widest(cw, among) == { j \in among : \A k \in among : cw[k] <= cw[j] }
OverMedian(r, cw) == { j \in NonFixed(r) : cw[j] - r.columns[j].median > 0 }
LargestDiff(r, cw) ==
    { j \in OverMedian(r, cw) :
        \A k \in OverMedian(r, cw) :
            cw[k] - r.columns[k].median <= cw[j] - r.columns[j].median }

PassCandidates(p, r, cw) ==
    IF p = "shrink_very_big" THEN Widest(cw, VeryBig(r, cw))
    ELSE IF p = "shrink_to_median" THEN LargestDiff(r, cw)
    ELSE Widest(cw, NonFixed(r))

ShrinkPasses == <<"shrink_very_big", "shrink_to_median", "shrink_biggest", "done">>

\* One step of the shrink branch: pass p takes 1 from one of its candidates
\* as long as the total exceeds the target and a candidate of positive width
\* exists, and hands over to the next pass when not; pass 2 leaves every
\* column at its median or above.
ShrinkStep(p) ==
    LET cands == { j \in PassCandidates(ShrinkPasses[p], resizer, col_widths) :
                     col_widths[j] > 0 }
        over == total_width(resizer, col_widths) > resizer.table_width
    IN  pc = ShrinkPasses[p] =>
           /\ IF over /\ cands # {}
              THEN /\ pc' = pc
                   /\ \E j \in cands : col_widths' = [col_widths EXCEPT ![j] = @ - 1]
              ELSE /\ pc' = ShrinkPasses[p + 1]
                   /\ col_widths' = col_widths
           /\ p = 2 => \A j \in 1..Len(col_widths) :
                          col_widths'[j] < col_widths[j] =>
                              col_widths'[j] >= resizer.columns[j].median

\* The table of the example: natural widths [20, 5, 5], no fixed width, and
\* the target 20 plus the border overhead, while or after it is shrunk.
ShrinkExample ==
    /\ pc \in {ShrinkPasses[p] : p \in 1..4}
    /\ max_column_widths(resizer) = <<20, 5, 5>>
    /\ NonFixed(resizer) = {1, 2, 3}
    /\ resizer.table_width = 20 + total_horizontal_border(resizer)

\* C23 as stated: the three shrink passes run in this order, each until the
\* total meets the target or it has no candidate; pass 2 never brings a
\* column below its median; and in the example only column 0 is reduced,
\* columns 1 and 2 keep width 5.
C23_ShrinkPasses ==
    /\ [][\A p \in 1..3 : ShrinkStep(p)]_vars
    /\ [](ShrinkExample => (col_widths[2] = 5 /\ col_widths[3] = 5))

\* C23, amended: the same passes; in the example columns 1 and 2 are never
\* reduced below their median, so they keep width 5 when their median is 5.
C23_ShrinkPassesToMedian ==
    /\ [][\A p \in 1..3 : ShrinkStep(p)]_vars
    /\ [](ShrinkExample =>
             \A j \in {2, 3} :
                 /\ col_widths[j] <= 5
                 /\ col_widths[j] >= Min(5, resizer.columns[j].median))

\* The example shrunk by all three passes, the median pass having taken 1
\* from column 1, whose median is 1.
C23_Witness ==
    /\ ShrinkExample
    /\ pc = "done"
    /\ resizer.columns[2].median = 1
    /\ col_widths = <<11, 4, 5>>


\* C24: optimized_widths() returns without an error for every input, no
\* width of the result is negative, and the result exceeds the target only
\* when no column without an override has a positive width left.
C24_ReturnsBestEffort ==
    /\ pc # "IndexError"
    /\ \A j \in 1..Len(col_widths) : col_widths[j] >= 0
    /\ (pc = "done" /\ total_width(resizer, col_widths) > resizer.table_width) =>
           \A j \in NonFixed(resizer) : col_widths[j] <= 0


\* The widths of the cells of column j in the rows that have one.
RECURSIVE ColumnCells(_, _)
ColumnCells(rows, j) ==
    IF rows = <<>> THEN <<>>
    ELSE (IF j <= Len(Head(rows)) THEN <<Head(rows)[j]>> ELSE <<>>)
         \o ColumnCells(Tail(rows), j)

DataRows(r) == IF r.has_headers THEN Tail(r.all_rows) ELSE r.all_rows

\* C26: the median of a column is the median of the visible widths of its
\* cells over all the data rows, the header row alone being left out, with
\* and without headers.
C26_MedianOverDataRows ==
    \A j \in 1..Len(resizer.columns) :
        resizer.columns[j].median = median(ColumnCells(DataRows(resizer), j))


\* C25: the height optimized_widths() computes for the header row is 1
\* whatever the header content, the wrap setting and the style hints of the
\* header cells; the height of every other row is at least 1.
C25_HeaderHeightOne ==
    pc = "done" =>
        /\ resizer.has_headers => row_heights_out[1] = 1
        /\ \A i \in 1..Len(row_heights_out) : row_heights_out[i] >= 1



-----------------------------------------------------------------------------
(* Strings of the render pipeline.  A string is a sequence of tokens: a    *)
(* character [c |-> ch, p |-> <<>>] or one SGR escape sequence             *)
(* [c |-> "ESC", p |-> parameters].  The character "W" stands for a        *)
(* double-width glyph (East Asian wide), "Z" for a zero-width combining    *)
(* mark; "\t", "\r" and "\n" are the control characters.                   *)

Ch(c) == [c |-> c, p |-> <<>>]
Esc(params) == [c |-> "ESC", p |-> params]
IsEsc(t) == t.c = "ESC"

NL == Ch("\n")
SP == Ch(" ")

\* " " * n, "\n" * n
Spaces(n) == Repeat(SP, n)
Newlines(n) == Repeat(NL, n)

\* s.split("\n"): the lines of s, at least one.
RECURSIVE SplitFrom(_, _, _)
SplitFrom(s, i, current) ==
    IF i > Len(s) THEN << current >>
    ELSE IF s[i] = NL THEN << current >> \o SplitFrom(s, i + 1, <<>>)
    ELSE SplitFrom(s, i + 1, Append(current, s[i]))

Split(s) == SplitFrom(s, 1, <<>>)

\* sep.join(parts)
RECURSIVE Join(_, _)
Join(parts, sep) ==
    IF parts = <<>> THEN <<>>
    ELSE IF Len(parts) = 1 THEN parts[1]
    ELSE parts[1] \o sep \o Join(Tail(parts), sep)

JoinLines(lines) == Join(lines, << NL >>)

\* s.count("\n")
CountNL(s) == Cardinality({ i \in 1..Len(s) : s[i] = NL })

\* s.replace(ch, repl) for a one-character ch
RECURSIVE ReplaceChar(_, _, _)
ReplaceChar(s, ch, repl) ==
    IF s = <<>> THEN <<>>
    ELSE (IF Head(s) = ch THEN repl ELSE << Head(s) >>) \o ReplaceChar(Tail(s), ch, repl)

\* s.replace("\r\n", "\n")
RECURSIVE ReplaceCRLF(_)
ReplaceCRLF(s) ==
    IF s = <<>> THEN <<>>
    ELSE IF Len(s) >= 2 /\ s[1] = Ch("\r") /\ s[2] = NL
         THEN << NL >> \o ReplaceCRLF(Tail(Tail(s)))
    ELSE << Head(s) >> \o ReplaceCRLF(Tail(s))

\* _strip_ansi(s) of style.py and of size.py: the escape sequences removed.
strip_ansi(s) == SelectSeq(s, LAMBDA t : ~IsEsc(t))

\* wcwidth.wcwidth(ch): -1 for a control character, 0 for a combining mark,
\* 2 for a wide glyph, 1 otherwise.
wcwidth(ch) ==
    CASE ch.c \in {"\t", "\r", "\n"} -> -1
      [] ch.c = "Z" -> 0
      [] ch.c = "W" -> 2
      [] OTHER -> 1

\* wcwidth.wcswidth(s): the sum of the widths, or -1 when a character of s
\* has width -1.
wcswidth(s) ==
    IF \E i \in 1..Len(s) : wcwidth(s[i]) < 0 THEN -1
    ELSE SumSeq([i \in 1..Len(s) |-> wcwidth(s[i])])

\* _char_width(ch) of style.py; installed is FALSE when `import wcwidth`
\* raises ImportError.
char_width(installed, ch) ==
    IF installed
    THEN (IF wcwidth(ch) >= 0 THEN wcwidth(ch) ELSE 1)
    ELSE 1

\* _visible_width(line) of style.py
visible_width(installed, line) ==
    LET stripped == strip_ansi(line)
    IN  IF installed
        THEN (IF wcswidth(stripped) >= 0 THEN wcswidth(stripped) ELSE Len(stripped))
        ELSE Len(stripped)

MaxOf(ns) == IF ns = <<>> THEN 0
             ELSE CHOOSE m \in { ns[i] : i \in 1..Len(ns) } : \A i \in 1..Len(ns) : ns[i] <= m

\* max((_visible_width(ln) for ln in lines), default=0)
widest_line(installed, lines) ==
    MaxOf([i \in 1..Len(lines) |-> visible_width(installed, lines[i])])

\* size.py: _visible_width, width, height
size_visible_width(installed, line) ==
    IF installed
    THEN (IF wcswidth(strip_ansi(line)) >= 0 THEN wcswidth(strip_ansi(line))
          ELSE Len(strip_ansi(line)))
    ELSE Len(strip_ansi(line))

width(installed, s) ==
    MaxOf([i \in 1..Len(Split(s)) |-> size_visible_width(installed, Split(s)[i])])

height(s) == CountNL(s) + 1



\* borders.py: a Border holds the glyph strings of the edges and corners
\* (the middle_* glyphs, used by tables only, are left out).
Border(top, bottom, left, right, top_left, top_right, bottom_left, bottom_right) ==
    [top |-> top, bottom |-> bottom, left |-> left, right |-> right,
     top_left |-> top_left, top_right |-> top_right,
     bottom_left |-> bottom_left, bottom_right |-> bottom_right]

ascii_border ==
    Border(<<Ch("-")>>, <<Ch("-")>>, <<Ch("|")>>, <<Ch("|")>>,
           <<Ch("+")>>, <<Ch("+")>>, <<Ch("+")>>, <<Ch("+")>>)

-----------------------------------------------------------------------------
(* style.py: the Style property set.  _props is a function whose domain is *)
(* the set of keys present; a Style object is [props, value] and is named   *)
(* by its index in styles.  A Position is a percentage (0.5 is 50).        *)

\* Style(): no property, no attached string.
NewStyle == [props |-> <<>>, value |-> <<>>]

\* Style._get(key, default)
get(s, key, default) == IF key \in DOMAIN s.props THEN s.props[key] ELSE default

\* Style._is_set(key)
is_set(s, key) == key \in DOMAIN s.props

\* Style.copy(): the deep copy is a value equal to the original.
copy(s) == [props |-> s.props, value |-> s.value]

\* Style._set(key, value): a copy with the key set.
set(s, key, value) ==
    LET c == copy(s)
    IN  [c EXCEPT !.props = [k \in DOMAIN c.props \cup {key} |->
                                IF k = key THEN value ELSE c.props[k]]]

\* Style._unset(key): a copy with the key removed.
unset(s, key) ==
    LET c == copy(s)
    IN  [c EXCEPT !.props = [k \in DOMAIN c.props \ {key} |-> c.props[k]]]

\* Style.set_string(*strings), with the strings already joined.
set_string(s, joined) == [copy(s) EXCEPT !.value = joined]

NO_INHERIT ==
    {"margin_top", "margin_right", "margin_bottom", "margin_left",
     "padding_top", "padding_right", "padding_bottom", "padding_left"}

\* Style.inherit(parent) without the _NO_INHERIT test.
inherit_spacing_too(s, parent) ==
    LET c == copy(s)
        taken == {k \in DOMAIN parent.props : k \notin DOMAIN c.props}
    IN  [c EXCEPT !.props = [k \in DOMAIN c.props \cup taken |->
                                IF k \in DOMAIN c.props THEN c.props[k]
                                ELSE parent.props[k]]]

\* Style.inherit(parent)
inherit(s, parent) ==
    LET c == copy(s)
        taken == {k \in DOMAIN parent.props : k \notin NO_INHERIT /\ k \notin DOMAIN c.props}
    IN  [c EXCEPT !.props = [k \in DOMAIN c.props \cup taken |->
                                IF k \in DOMAIN c.props THEN c.props[k]
                                ELSE parent.props[k]]]

\* _expand_sides taking the left side of three values from the last one.
expand_sides_left_of_bottom(values) ==
    CASE Len(values) = 1 -> <<values[1], values[1], values[1], values[1]>>
      [] Len(values) = 2 -> <<values[1], values[2], values[1], values[2]>>
      [] Len(values) = 3 -> <<values[1], values[2], values[3], values[3]>>
      [] Len(values) = 4 -> <<values[1], values[2], values[3], values[4]>>
      [] OTHER -> <<>>

\* _expand_sides / _expand_sides_bool: <<>> stands for the ValueError.
expand_sides(values) ==
    CASE Len(values) = 1 -> <<values[1], values[1], values[1], values[1]>>
      [] Len(values) = 2 -> <<values[1], values[2], values[1], values[2]>>
      [] Len(values) = 3 -> <<values[1], values[2], values[3], values[2]>>
      [] Len(values) = 4 -> <<values[1], values[2], values[3], values[4]>>
      [] OTHER -> <<>>

\* The four chained _set calls of padding / margin / border.
set_sides(s, prefix, sides) ==
    set(set(set(set(s, prefix[1], sides[1]), prefix[2], sides[2]),
            prefix[3], sides[3]), prefix[4], sides[4])

PaddingKeys == <<"padding_top", "padding_right", "padding_bottom", "padding_left">>
MarginKeys == <<"margin_top", "margin_right", "margin_bottom", "margin_left">>
BorderKeys == <<"border_top", "border_right", "border_bottom", "border_left">>

\* Style.align(*alignments): with no argument it is the receiver itself.
align(s, alignments) ==
    LET s1 == IF Len(alignments) >= 1 THEN set(s, "align_horizontal", alignments[1]) ELSE s
    IN  IF Len(alignments) >= 2 THEN set(s1, "align_vertical", alignments[2]) ELSE s1


\* The number of Style objects a run creates.
MaxStyles == 4

\* Calls of the one-property setters, each `return self._set(key, v)`:
\* the keys, and the arguments passed for each key.
SetterKeys == {"bold", "width", "padding_left", "margin_top", "border_top", "align_vertical"}

SetterValues(key) ==
    CASE key \in {"bold", "border_top"} -> BOOLEAN
      [] key = "width" -> {0, 4}
      [] key = "align_vertical" -> {100}
      [] OTHER -> {2}

\* Calls of the unsetters, each `return self._unset(key)`.
UnsetterCalls == {"bold", "width", "padding_left", "align_horizontal"}

\* Argument lists of the shorthand setters padding(*values), margin(*values).
SideValues ==
    { <<>>, <<1>>, <<1, 2>>, <<1, 2, 3>>, <<1, 2, 3, 4>>, <<1, 2, 3, 4, 5>> }

\* Argument lists of border(b, *sides) after the border b.
SideFlags == { <<>>, <<TRUE>>, <<TRUE, FALSE>>, <<TRUE, FALSE, FALSE, TRUE, TRUE>> }

\* Argument lists of align(*alignments).
Alignments == { <<>>, <<50>>, <<100, 50>> }

\* The call returns a Style object that did not exist before.  args is the
\* argument list of a shorthand call (padding, margin), the index of the
\* parent for inherit, <<>> for the others.
ReturnNewOf(op, args, i, s) ==
    /\ styles' = Append(styles, s)
    /\ call' = << [op |-> op, args |-> args, recv |-> i, result |-> Len(styles) + 1] >>

ReturnNew(op, i, s) == ReturnNewOf(op, <<>>, i, s)

\* The call returns the object i itself.
ReturnSame(op, i) ==
    /\ call' = << [op |-> op, args |-> <<>>, recv |-> i, result |-> i] >>
    /\ UNCHANGED styles

\* The call raises ValueError: no object is returned (result 0).
RaiseOf(op, args, i) ==
    /\ call' = << [op |-> op, args |-> args, recv |-> i, result |-> 0] >>
    /\ UNCHANGED styles

Raise(op, i) == RaiseOf(op, <<>>, i)

CanCall(i) == i \in 1..Len(styles) /\ Len(styles) < MaxStyles

Setter(i, key, value) ==
    /\ CanCall(i)
    /\ ReturnNew(key, i, set(styles[i], key, value))
    /\ UNCHANGED <<rendererVars, colorVars, resizeVars, renderVars, tableVars>>

Unsetter(i, key) ==
    /\ CanCall(i)
    /\ ReturnNew("unset", i, unset(styles[i], key))
    /\ UNCHANGED <<rendererVars, colorVars, resizeVars, renderVars, tableVars>>

Copy(i) ==
    /\ CanCall(i)
    /\ ReturnNew("copy", i, copy(styles[i]))
    /\ UNCHANGED <<rendererVars, colorVars, resizeVars, renderVars, tableVars>>

SetString(i, joined) ==
    /\ CanCall(i)
    /\ ReturnNew("set_string", i, set_string(styles[i], joined))
    /\ UNCHANGED <<rendererVars, colorVars, resizeVars, renderVars, tableVars>>

Inherit(i, parent) ==
    /\ CanCall(i)
    /\ parent \in 1..Len(styles)
    /\ ReturnNewOf("inherit", <<parent>>, i, inherit(styles[i], styles[parent]))
    /\ UNCHANGED <<rendererVars, colorVars, resizeVars, renderVars, tableVars>>

\* Style.padding(*values): _expand_sides raises before any copy is made.
Padding(i, values) ==
    /\ CanCall(i)
    /\ IF expand_sides(values) = <<>> THEN RaiseOf("padding", values, i)
       ELSE ReturnNewOf("padding", values, i,
                        set_sides(styles[i], PaddingKeys, expand_sides(values)))
    /\ UNCHANGED <<rendererVars, colorVars, resizeVars, renderVars, tableVars>>

\* Style.margin(*values)
Margin(i, values) ==
    /\ CanCall(i)
    /\ IF expand_sides(values) = <<>> THEN RaiseOf("margin", values, i)
       ELSE ReturnNewOf("margin", values, i,
                        set_sides(styles[i], MarginKeys, expand_sides(values)))
    /\ UNCHANGED <<rendererVars, colorVars, resizeVars, renderVars, tableVars>>

\* Style.border(b, *sides): no side flags leave the four border_* keys alone.
BorderCall(i, b, sides) ==
    /\ CanCall(i)
    /\ LET s == set(styles[i], "border_style", b)
       IN  IF sides = <<>> THEN ReturnNew("border", i, s)
           ELSE IF expand_sides(sides) = <<>> THEN Raise("border", i)
           ELSE ReturnNew("border", i, set_sides(s, BorderKeys, expand_sides(sides)))
    /\ UNCHANGED <<rendererVars, colorVars, resizeVars, renderVars, tableVars>>

\* Style.align(*alignments)
Align(i, alignments) ==
    /\ CanCall(i)
    /\ IF alignments = <<>> THEN ReturnSame("align", i)
       ELSE ReturnNew("align", i, align(styles[i], alignments))
    /\ UNCHANGED <<rendererVars, colorVars, resizeVars, renderVars, tableVars>>

StyleInit ==
    /\ RendererIdle
    /\ ColorIdle
    /\ ResizeIdle
    /\ styles = << NewStyle >>
    /\ call = <<>>
    /\ RenderIdle
    /\ TableIdle

StyleNext ==
    \E i \in 1..MaxStyles :
        \/ \E key \in SetterKeys : \E value \in SetterValues(key) : Setter(i, key, value)
        \/ \E key \in UnsetterCalls : Unsetter(i, key)
        \/ Copy(i)
        \/ \E joined \in { <<>>, <<Ch("a"), SP, Ch("b")>> } : SetString(i, joined)
        \/ \E parent \in 1..MaxStyles : Inherit(i, parent)
        \/ \E values \in SideValues : Padding(i, values)
        \/ \E values \in SideValues : Margin(i, values)
        \/ \E sides \in SideFlags : BorderCall(i, ascii_border, sides)
        \/ \E alignments \in Alignments : Align(i, alignments)

SpecStyle == StyleInit /\ [][StyleNext]_vars

-----------------------------------------------------------------------------
(* Claims about the Style property set.                                    *)

\* C1: every setter, unsetter, copy(), set_string() and inherit() returns a
\* new Style object and leaves every Style that existed before the call
\* (the receiver and, for inherit, the parent included) with the same
\* properties, values and attached string.
C1_SettersReturnNewStyle ==
    [][ (call' # call /\ call'[1].result # 0) =>
            /\ call'[1].result \notin 1..Len(styles)
            /\ \A i \in 1..Len(styles) : styles'[i] = styles[i] ]_vars


\* C13: padding(*values) and margin(*values) called with 1 to 4 values
\* return a new Style whose four sides are the values in CSS order (1: all
\* sides; 2: top/bottom, right/left; 3: top, right/left, bottom; 4: top,
\* right, bottom, left) and whose other properties are the receiver's;
\* called with no value or with 5 values they raise, return no Style and
\* leave every Style as it was.
C13_ShorthandSides ==
    [][ (call' # call /\ call'[1].op \in {"padding", "margin"}) =>
            LET v == call'[1].args
                n == Len(v)
                r == call'[1].result
                old == styles[call'[1].recv]
                keys == IF call'[1].op = "padding" THEN PaddingKeys ELSE MarginKeys
            IN  IF n \in 1..4
                THEN /\ r = Len(styles) + 1
                     /\ Len(styles') = r
                     /\ \A i \in 1..Len(styles) : styles'[i] = styles[i]
                     /\ styles'[r].value = old.value
                     /\ DOMAIN styles'[r].props = DOMAIN old.props \cup {keys[j] : j \in 1..4}
                     /\ \A k \in DOMAIN old.props \ {keys[j] : j \in 1..4} :
                            styles'[r].props[k] = old.props[k]
                     /\ styles'[r].props[keys[1]] = v[1]
                     /\ styles'[r].props[keys[2]] = (IF n >= 2 THEN v[2] ELSE v[1])
                     /\ styles'[r].props[keys[3]] = (IF n >= 3 THEN v[3] ELSE v[1])
                     /\ styles'[r].props[keys[4]] =
                            (IF n = 4 THEN v[4] ELSE IF n >= 2 THEN v[2] ELSE v[1])
                ELSE r = 0 /\ styles' = styles ]_vars

C13_Witness ==
    /\ call # <<>>
    /\ call[1].op = "margin"
    /\ call[1].args = <<1, 2, 3>>
    /\ call[1].result \in 1..Len(styles)
    /\ styles[call[1].result].props["margin_left"] = 2
    /\ styles[call[1].result].props["margin_bottom"] = 3

\* C14: child.inherit(parent) returns a new Style holding the child's
\* properties with the child's values (a value equal to the default
\* included), plus every property of the parent that the child does not have
\* and that is none of padding_* and margin_*, with the parent's value, and
\* nothing else.
C14_Inherit ==
    [][ (call' # call /\ call'[1].op = "inherit") =>
            LET child == styles[call'[1].recv]
                parent == styles[call'[1].args[1]]
                r == call'[1].result
                spacing == {PaddingKeys[j] : j \in 1..4} \cup {MarginKeys[j] : j \in 1..4}
            IN  /\ r = Len(styles) + 1
                /\ Len(styles') = r
                /\ styles'[r].value = child.value
                /\ DOMAIN styles'[r].props =
                        DOMAIN child.props \cup (DOMAIN parent.props \ spacing)
                /\ \A k \in DOMAIN styles'[r].props :
                        styles'[r].props[k] =
                            (IF k \in DOMAIN child.props THEN child.props[k]
                             ELSE parent.props[k]) ]_vars

\* A child with bold set to False inherits from a parent with bold set to
\* True: it keeps bold False.
C14_Witness ==
    /\ call # <<>>
    /\ call[1].op = "inherit"
    /\ call[1].result \in 1..Len(styles)
    /\ LET child == styles[call[1].recv]
           parent == styles[call[1].args[1]]
           new == styles[call[1].result]
       IN  /\ is_set(child, "bold") /\ ~child.props["bold"]
           /\ is_set(parent, "bold") /\ parent.props["bold"]
           /\ ~new.props["bold"]

\* A child without margin inherits from a parent with a margin and a bold
\* property: it takes bold and not the margin.
C14_SpacingCase ==
    /\ call # <<>>
    /\ call[1].op = "inherit"
    /\ call[1].result \in 1..Len(styles)
    /\ LET child == styles[call[1].recv]
           parent == styles[call[1].args[1]]
           new == styles[call[1].result]
       IN  /\ is_set(parent, "margin_top") /\ ~is_set(child, "margin_top")
           /\ is_set(parent, "bold") /\ ~is_set(child, "bold")
           /\ is_set(new, "bold")
           /\ ~is_set(new, "margin_top")

-----------------------------------------------------------------------------
(* style.py: Style.render.  ctx is what the call reads outside the Style:  *)
(* installed (wcwidth can be imported), profile and dark (what the         *)
(* renderer's color_profile() and has_dark_background() return).  The      *)
(* transform property, a user callback, is not modelled.                   *)

\* The colour keys in the order render resolves them.
ResolveOrder ==
    << "foreground", "background",
       "border_top_foreground", "border_top_background",
       "border_left_foreground", "border_left_background",
       "border_right_foreground", "border_right_background",
       "border_bottom_foreground", "border_bottom_background",
       "margin_background" >>

ColourKeys == { ResolveOrder[k] : k \in 1..Len(ResolveOrder) }

\* c.resolve(self._renderer) if c is not None else "", for each colour
\* property c of the Style: rc[key] is the outcome, <<>> for no colour set.
resolved_colours(ctx, s) ==
    [key \in ColourKeys |->
        IF is_set(s, key) THEN resolve(s.props[key], ctx.profile, ctx.dark)
        ELSE Returned(<<>>)]

\* params.extend(_extract_sgr_params(_fg_to_bg_escape(bg)))
bg_params(bg) == IF bg = <<>> THEN <<>> ELSE extract_sgr_params(fg_to_bg_escape(bg))
fg_params(fg) == IF fg = <<>> THEN <<>> ELSE extract_sgr_params(fg)

Flag(b, n) == IF b THEN << n >> ELSE <<>>

\* _build_sgr(...): the parameters of main_sgr, <<>> for "".
build_sgr(bold, italic, underline, strikethrough, reverse, blink, faint, fg, bg) ==
    Flag(bold, 1) \o Flag(faint, 2) \o Flag(italic, 3) \o Flag(underline, 4)
        \o Flag(blink, 5) \o Flag(reverse, 7) \o Flag(strikethrough, 9)
        \o fg_params(fg) \o bg_params(bg)

\* style_str / style_ws / style_sp: sgr + s + "\x1b[0m", or s when sgr is "".
styled(sgr, s) == IF sgr = <<>> THEN s ELSE << Esc(sgr) >> \o s \o << Esc(<<0>>) >>

underline_spaces_of(s) ==
    get(s, "underline_spaces", FALSE)
        \/ (get(s, "underline", FALSE) /\ get(s, "underline_spaces", TRUE))

strikethrough_spaces_of(s) ==
    get(s, "strikethrough_spaces", FALSE)
        \/ (get(s, "strikethrough", FALSE) /\ get(s, "strikethrough_spaces", TRUE))

use_space_styler(s) ==
    \/ get(s, "underline", FALSE) /\ ~underline_spaces_of(s)
    \/ get(s, "strikethrough", FALSE) /\ ~strikethrough_spaces_of(s)
    \/ underline_spaces_of(s)
    \/ strikethrough_spaces_of(s)

main_sgr(s, fg_esc, bg_esc) ==
    build_sgr(get(s, "bold", FALSE), get(s, "italic", FALSE), get(s, "underline", FALSE),
              get(s, "strikethrough", FALSE), get(s, "reverse", FALSE),
              get(s, "blink", FALSE), get(s, "faint", FALSE), fg_esc, bg_esc)

ws_sgr(s, fg_esc, bg_esc) ==
    Flag(get(s, "reverse", FALSE), 7)
        \o (IF get(s, "reverse", FALSE) THEN fg_params(fg_esc) ELSE <<>>)
        \o (IF get(s, "color_whitespace", TRUE) THEN bg_params(bg_esc) ELSE <<>>)

sp_sgr(s, fg_esc, bg_esc) ==
    fg_params(fg_esc) \o bg_params(bg_esc)
        \o Flag(underline_spaces_of(s), 4) \o Flag(strikethrough_spaces_of(s), 9)

\* _maybe_convert_tabs(s, tab_width, explicit)
maybe_convert_tabs(str, tab_width, explicit) ==
    LET tw == IF explicit THEN tab_width ELSE 4
    IN  IF tw = -1 THEN str
        ELSE IF tw = 0 THEN ReplaceChar(str, Ch("\t"), <<>>)
        ELSE ReplaceChar(str, Ch("\t"), Spaces(tw))

\* _word_wrap, the loop over the words of one line; returns the lines.
RECURSIVE wrap_words(_, _, _, _)
wrap_words(installed, words, current, wrap_at) ==
    IF words = <<>> THEN << current >>
    ELSE LET word == Head(words)
         IN  IF current = <<>>
             THEN wrap_words(installed, Tail(words), word, wrap_at)
             ELSE IF visible_width(installed, current) + 1
                        + visible_width(installed, word) <= wrap_at
             THEN wrap_words(installed, Tail(words), current \o << SP >> \o word, wrap_at)
             ELSE << current >> \o wrap_words(installed, Tail(words), word, wrap_at)

\* line.split(" ")
RECURSIVE SplitSpaces(_, _, _)
SplitSpaces(s, i, current) ==
    IF i > Len(s) THEN << current >>
    ELSE IF s[i] = SP THEN << current >> \o SplitSpaces(s, i + 1, <<>>)
    ELSE SplitSpaces(s, i + 1, Append(current, s[i]))

RECURSIVE wrap_lines(_, _, _)
wrap_lines(installed, lines, wrap_at) ==
    IF lines = <<>> THEN <<>>
    ELSE (IF visible_width(installed, Head(lines)) <= wrap_at THEN << Head(lines) >>
          ELSE wrap_words(installed, SplitSpaces(Head(lines), 1, <<>>), <<>>, wrap_at))
         \o wrap_lines(installed, Tail(lines), wrap_at)

\* _word_wrap(s, width)
word_wrap(installed, str, wrap_at) ==
    IF wrap_at <= 0 THEN str
    ELSE JoinLines(wrap_lines(installed, Split(str), wrap_at))


\* The per-character styling of one line when use_space_styler holds.
RECURSIVE style_chars(_, _, _)
style_chars(line, main, sp) ==
    IF line = <<>> THEN <<>>
    ELSE (IF Head(line) = SP \/ Head(line) = Ch("\t")
          THEN styled(sp, << Head(line) >>)
          ELSE styled(main, << Head(line) >>))
         \o style_chars(Tail(line), main, sp)

\* Render core text line-by-line.
style_lines(s, str, main, sp) ==
    LET lines == Split(str)
    IN  JoinLines([i \in 1..Len(lines) |->
            IF use_space_styler(s) THEN style_chars(lines[i], main, sp)
            ELSE styled(main, lines[i])])

\* "\n".join(prefix + line + suffix for line in str_.split("\n"))
EachLine(str, prefix, suffix) ==
    LET lines == Split(str)
    IN  JoinLines([i \in 1..Len(lines) |-> prefix \o lines[i] \o suffix])

\* The padding step of render.
apply_padding(s, str, ws) ==
    LET pad_top == get(s, "padding_top", 0)
        pad_right == get(s, "padding_right", 0)
        pad_bottom == get(s, "padding_bottom", 0)
        pad_left == get(s, "padding_left", 0)
        s1 == IF pad_left > 0 THEN EachLine(str, styled(ws, Spaces(pad_left)), <<>>) ELSE str
        s2 == IF pad_right > 0 THEN EachLine(s1, <<>>, styled(ws, Spaces(pad_right))) ELSE s1
        s3 == IF pad_top > 0 THEN Newlines(pad_top) \o s2 ELSE s2
    IN  IF pad_bottom > 0 THEN s3 \o Newlines(pad_bottom) ELSE s3

\* max(0.0, min(1.0, pos)) on percentages
Clamp(pos) == Max(0, Min(100, pos))

\* _align_text_vertical(str_, pos, height)
align_text_vertical(str, pos, h) ==
    LET str_height == CountNL(str) + 1
        top_pad == (h - str_height) \div 2
        bottom_pad == IF str_height + 2 * top_pad < h THEN top_pad + 1 ELSE top_pad
    IN  IF h <= str_height THEN str
        ELSE IF Clamp(pos) = 0 THEN str \o Newlines(h - str_height)
        ELSE IF Clamp(pos) = 100 THEN Newlines(h - str_height) \o str
        ELSE Newlines(top_pad) \o str \o Newlines(bottom_pad)

\* _align_text_horizontal, one line; ws is the whitespace styler's sgr and
\* use_ws tells whether style_ws was passed.
align_line(installed, line, pos, w, widest, use_ws, ws) ==
    LET line_w == visible_width(installed, line)
        short0 == widest - line_w
        short == short0 + Max(0, w - (short0 + line_w))
        sty(sp) == IF use_ws THEN styled(ws, sp) ELSE sp
        left_n == short \div 2
        right_n == left_n + (short % 2)
    IN  IF short <= 0 THEN line
        ELSE IF Clamp(pos) = 100 THEN sty(Spaces(short)) \o line
        ELSE IF Clamp(pos) = 50
             THEN sty(Spaces(left_n)) \o line \o sty(Spaces(right_n))
        ELSE line \o sty(Spaces(short))

\* _align_text_horizontal(str_, pos, width, style_ws)
align_text_horizontal(installed, str, pos, w, use_ws, ws) ==
    LET lines == Split(str)
        widest == widest_line(installed, lines)
    IN  JoinLines([i \in 1..Len(lines) |->
            align_line(installed, lines[i], pos, w, widest, use_ws, ws)])

\* _truncate_ansi, the loop from position i with `visible` cells kept.
RECURSIVE truncate_from(_, _, _, _, _)
truncate_from(installed, line, i, visible, max_width) ==
    IF i > Len(line) THEN <<>>
    ELSE IF IsEsc(line[i])
         THEN << line[i] >> \o truncate_from(installed, line, i + 1, visible, max_width)
    ELSE IF visible + char_width(installed, line[i]) > max_width THEN <<>>
    ELSE << line[i] >> \o truncate_from(installed, line, i + 1,
                              visible + char_width(installed, line[i]), max_width)

\* _truncate_ansi(line, max_width)
truncate_ansi(installed, line, max_width) ==
    IF visible_width(installed, line) <= max_width THEN line
    ELSE truncate_from(installed, line, 1, 0, max_width)

\* lines[:n]
Take(lines, n) == SubSeq(lines, 1, Min(n, Len(lines)))


\* _render_horizontal_edge, the loop: i cells drawn so far, rune j next.
RECURSIVE edge_loop(_, _, _, _, _)
edge_loop(installed, runes, j, i, limit) ==
    IF i >= limit THEN <<>>
    ELSE << runes[j] >> \o edge_loop(installed, runes, (j % Len(runes)) + 1,
                                     i + char_width(installed, runes[j]), limit)

\* _render_horizontal_edge(left, middle, right, width)
render_horizontal_edge(installed, left, middle, right, w) ==
    LET runes == IF middle = <<>> THEN << SP >> ELSE middle
        left_w == visible_width(installed, left)
        right_w == visible_width(installed, right)
    IN  left \o edge_loop(installed, runes, 1, left_w + right_w, w + right_w) \o right

\* _style_border_part(s, fg, bg) inside _apply_border
style_border_part(rc, part, fg_key, bg_key) ==
    LET params == fg_params(rc[fg_key].esc) \o bg_params(rc[bg_key].esc)
    IN  IF part = <<>> THEN part ELSE styled(params, part)

\* The sides _apply_border draws: the explicit flags, or all four when a
\* border style is set and no border_* key is.
border_sides(s) ==
    IF is_set(s, "border_style")
          /\ ~(is_set(s, "border_top") \/ is_set(s, "border_right")
                 \/ is_set(s, "border_bottom") \/ is_set(s, "border_left"))
    THEN [top |-> TRUE, right |-> TRUE, bottom |-> TRUE, left |-> TRUE]
    ELSE [top |-> get(s, "border_top", FALSE), right |-> get(s, "border_right", FALSE),
          bottom |-> get(s, "border_bottom", FALSE), left |-> get(s, "border_left", FALSE)]

\* s[:1]
First(glyph) == IF glyph = <<>> THEN <<>> ELSE << glyph[1] >>

\* The top and bottom edge strings of _apply_border(str_), before they are
\* styled.
horizontal_edges(installed, s, str) ==
    LET has == border_sides(s)
        border == s.props["border_style"]
        content_width == widest_line(installed, Split(str))
                            + (IF has.left
                               THEN char_width(installed,
                                        IF border.left = <<>> THEN SP ELSE border.left[1])
                               ELSE 0)
        top_left == IF has.top /\ has.left THEN First(border.top_left) ELSE <<>>
        top_right == IF has.top /\ has.right THEN First(border.top_right) ELSE <<>>
        bottom_left == IF has.bottom /\ has.left THEN First(border.bottom_left) ELSE <<>>
        bottom_right == IF has.bottom /\ has.right THEN First(border.bottom_right) ELSE <<>>
    IN  [top |-> render_horizontal_edge(installed, top_left, border.top,
                                        top_right, content_width),
         bottom |-> render_horizontal_edge(installed, bottom_left, border.bottom,
                                           bottom_right, content_width)]

\* Style._apply_border(str_)
apply_border(installed, s, rc, str) ==
    LET has == border_sides(s)
        border == s.props["border_style"]
        lines == Split(str)
        left_char == IF has.left THEN (IF border.left = <<>> THEN << SP >> ELSE border.left)
                     ELSE <<>>
        right_char == IF has.right THEN (IF border.right = <<>> THEN << SP >> ELSE border.right)
                      ELSE <<>>
        edges == horizontal_edges(installed, s, str)
        top_line == style_border_part(rc, edges.top,
                        "border_top_foreground", "border_top_background")
        bottom_line == style_border_part(rc, edges.bottom,
                        "border_bottom_foreground", "border_bottom_background")
        row(i) ==
            (IF left_char = <<>> THEN <<>>
             ELSE style_border_part(rc, << left_char[((i - 1) % Len(left_char)) + 1] >>,
                                    "border_left_foreground", "border_left_background"))
            \o lines[i]
            \o (IF right_char = <<>> THEN <<>>
                ELSE style_border_part(rc, << right_char[((i - 1) % Len(right_char)) + 1] >>,
                                       "border_right_foreground", "border_right_background"))
        out == (IF has.top THEN << top_line >> ELSE <<>>)
                   \o [i \in 1..Len(lines) |-> row(i)]
                   \o (IF has.bottom THEN << bottom_line >> ELSE <<>>)
    IN  IF ~is_set(s, "border_style") THEN str
        ELSE IF ~(has.top \/ has.right \/ has.bottom \/ has.left) THEN str
        ELSE JoinLines(out)

\* style_margin(s) inside _apply_margins
style_margin(rc, sp) == styled(bg_params(rc["margin_background"].esc), sp)

\* Style._apply_margins(str_)
apply_margins(installed, s, rc, str) ==
    LET top_margin == get(s, "margin_top", 0)
        right_margin == get(s, "margin_right", 0)
        bottom_margin == get(s, "margin_bottom", 0)
        left_margin == get(s, "margin_left", 0)
        s1 == IF left_margin > 0
              THEN EachLine(str, style_margin(rc, Spaces(left_margin)), <<>>) ELSE str
        s2 == IF right_margin > 0
              THEN EachLine(s1, <<>>, style_margin(rc, Spaces(right_margin))) ELSE s1
        w == widest_line(installed, Split(s2))
        empty_line == style_margin(rc, Spaces(w))
        above == Join([i \in 1..top_margin |-> empty_line \o << NL >>], <<>>)
        below == Join([i \in 1..bottom_margin |-> << NL >> \o empty_line], <<>>)
    IN  IF top_margin > 0 \/ bottom_margin > 0
        THEN (IF top_margin > 0 THEN above ELSE <<>>) \o s2
                 \o (IF bottom_margin > 0 THEN below ELSE <<>>)
        ELSE s2


\* Style.render up to the alignment steps: the block that the border is
\* drawn around.
render_block(installed, s, rc, str0) ==
    LET fg_esc == rc["foreground"].esc
        bg_esc == rc["background"].esc
        main == main_sgr(s, fg_esc, bg_esc)
        ws == ws_sgr(s, fg_esc, bg_esc)
        sp == sp_sgr(s, fg_esc, bg_esc)
        inline == get(s, "inline", FALSE)
        width_ == get(s, "width", 0)
        height_ == get(s, "height", 0)
        wrap_at == width_ - get(s, "padding_left", 0) - get(s, "padding_right", 0)
        s1 == maybe_convert_tabs(str0, get(s, "tab_width", 4), is_set(s, "tab_width"))
        s2 == ReplaceCRLF(s1)
        s3 == IF inline THEN ReplaceChar(s2, NL, <<>>) ELSE s2
        s4 == IF ~inline /\ width_ > 0 /\ wrap_at > 0
              THEN word_wrap(installed, s3, wrap_at) ELSE s3
        s5 == style_lines(s, s4, main, sp)
        s6 == IF ~inline THEN apply_padding(s, s5, ws) ELSE s5
        s7 == IF height_ > 0
              THEN align_text_vertical(s6, get(s, "align_vertical", 0), height_) ELSE s6
    IN  IF CountNL(s7) # 0 \/ width_ # 0
        THEN align_text_horizontal(installed, s7, get(s, "align_horizontal", 0),
                 width_,
                 get(s, "color_whitespace", TRUE) \/ get(s, "reverse", FALSE), ws)
        ELSE s7

\* The max_width step of Style.render
truncate_width(installed, str, max_width) ==
    IF max_width > 0
    THEN JoinLines([i \in 1..Len(Split(str)) |->
             truncate_ansi(installed, Split(str)[i], max_width)])
    ELSE str

\* The max_height step of Style.render
truncate_height(str, max_height) ==
    IF max_height > 0 THEN JoinLines(Take(Split(str), max_height)) ELSE str

\* Style.render from the border on, for colours that resolved without an
\* exception.
render_frame(installed, s, rc, block) ==
    truncate_height(
        truncate_width(installed,
            IF ~get(s, "inline", FALSE)
            THEN apply_margins(installed, s, rc, apply_border(installed, s, rc, block))
            ELSE block,
            get(s, "max_width", 0)),
        get(s, "max_height", 0))

\* The colour properties a render call resolves: the foreground and the
\* background, those of every border part that is drawn and not empty (a
\* left or right part never is), and the margin background when a margin
\* is drawn.
resolved_keys(installed, s, block) ==
    LET has == border_sides(s)
        drawn == ~get(s, "inline", FALSE) /\ is_set(s, "border_style")
        edges == horizontal_edges(installed, s, block)
        margins == ~get(s, "inline", FALSE)
                      /\ (get(s, "margin_top", 0) > 0 \/ get(s, "margin_right", 0) > 0
                            \/ get(s, "margin_bottom", 0) > 0 \/ get(s, "margin_left", 0) > 0)
    IN  {"foreground", "background"}
        \cup (IF drawn /\ has.top /\ edges.top # <<>>
              THEN {"border_top_foreground", "border_top_background"} ELSE {})
        \cup (IF drawn /\ has.right THEN {"border_right_foreground", "border_right_background"} ELSE {})
        \cup (IF drawn /\ has.bottom /\ edges.bottom # <<>>
              THEN {"border_bottom_foreground", "border_bottom_background"} ELSE {})
        \cup (IF drawn /\ has.left THEN {"border_left_foreground", "border_left_background"} ELSE {})
        \cup (IF margins THEN {"margin_background"} ELSE {})

\* The colours whose resolve() a render call reaches, in the order of the
\* calls: none after the first one that raises.
RECURSIVE colours_called(_, _, _, _)
colours_called(s, rc, reached, keys) ==
    IF keys = <<>> THEN <<>>
    ELSE IF Head(keys) \in reached /\ is_set(s, Head(keys))
         THEN IF rc[Head(keys)].raised THEN << s.props[Head(keys)] >>
              ELSE << s.props[Head(keys)] >> \o colours_called(s, rc, reached, Tail(keys))
    ELSE colours_called(s, rc, reached, Tail(keys))

\* Style.render for a Style with properties, from the first colour that
\* is resolved on: the ValueError that a colour raised, or the string
\* returned; and the colours whose resolve() was called.
render_reached(installed, s, rc, block, reached) ==
    [raised |-> \E key \in reached : rc[key].raised,
     called |-> colours_called(s, rc, reached, ResolveOrder),
     out |-> IF \E key \in reached : rc[key].raised THEN <<>>
             ELSE render_frame(installed, s, rc, block)]

render_props(installed, s, rc, block) ==
    render_reached(installed, s, rc, block, resolved_keys(installed, s, block))

\* Style.render(t), rc holding the outcome of resolve() for each colour
\* property.  A Style without properties resolves no colour.
render_with(installed, s, rc, t) ==
    LET str0 == IF s.value # <<>> THEN s.value \o << SP >> \o t ELSE t
    IN  IF DOMAIN s.props = {}
        THEN [raised |-> FALSE, called |-> <<>>,
              out |-> maybe_convert_tabs(str0, get(s, "tab_width", 4), is_set(s, "tab_width"))]
        ELSE render_props(installed, s, rc, render_block(installed, s, rc, str0))

\* Style.render(t): the outcome.
render(ctx, s, t) ==
    LET r == render_with(ctx.installed, s, resolved_colours(ctx, s), t)
    IN  [raised |-> r.raised, out |-> r.out]

-----------------------------------------------------------------------------
(* Render calls.                                                           *)

MaxTextLen == 3
MaxRenders == 2
MaxWidth == 4
MaxPad == 1
MaxMaxWidth == 3

TextChars == {"a", " ", "W", "Z", "\t", "\r", "\n"}

\* The texts passed to render: every string of at most MaxTextLen characters.
Texts == UNION { [1..n -> { Ch(c) : c \in TextChars }] : n \in 0..MaxTextLen }

Positions == {0, 50, 100}

\* Style().width(w).padding_left(p).align_horizontal(a)
BoxStyles ==
    { set(set(set(NewStyle, "width", w), "padding_left", p), "align_horizontal", a) :
        w \in 1..MaxWidth, p \in 0..MaxPad, a \in Positions }

\* Styles with padding, a border, margins, a width or a height.
Decorated ==
    { NewStyle,
      set_sides(NewStyle, PaddingKeys, <<1, 1, 1, 1>>),
      set(NewStyle, "border_style", ascii_border),
      set_sides(NewStyle, MarginKeys, <<1, 1, 1, 1>>),
      set(NewStyle, "width", 3),
      set(set(NewStyle, "height", 2), "bold", TRUE) }

\* ... with max_width(m), max_height(1) or both set on top.
TruncStyles ==
    { set(d, "max_width", m) : d \in Decorated, m \in 1..MaxMaxWidth }
    \cup { set(set(d, "max_width", MaxMaxWidth), "max_height", 1) : d \in Decorated }
    \cup { set(d, "max_height", 1) : d \in Decorated }

ColourStyles ==
    { set(set(NewStyle, "bold", TRUE), "foreground",
          Color(<<"#", "F", "F", "5", "F", "0", "0">>)),
      set(set(set(NewStyle, "padding_left", 1), "background", Color(<<"3", "5">>)),
          "foreground", AdaptiveColor(<<"9">>, <<"#", "0", "0", "2", "3", "F", "F">>)),
      set(set(set(NewStyle, "underline", TRUE), "margin_left", 1), "margin_background",
          Color(<<"2", "0", "0">>)) }

\* ... with inline(True) set on top.
InlineStyles == { set(d, "inline", TRUE) : d \in Decorated }

RenderStyles ==
    { NewStyle } \cup BoxStyles \cup TruncStyles \cup ColourStyles \cup InlineStyles

\* The environments a render call may find.
TrueColorEnv ==
    [NO_COLOR |-> FALSE, COLORTERM |-> "truecolor", TERM |-> "xterm",
     TERM_PROGRAM |-> "", isatty |-> TRUE]

DumbEnv ==
    [NO_COLOR |-> FALSE, COLORTERM |-> "", TERM |-> "dumb",
     TERM_PROGRAM |-> "", isatty |-> FALSE]

RenderEnvs == { TrueColorEnv, DumbEnv }

\* What a render call of styles[i] with outcome r leaves behind: the record
\* of the call, with the environment it ran in, and the values that the
\* getters called by the colours have cached.
Rendered(i, r, profile, dark) ==
    /\ renders' = Append(renders,
           [recv |-> i, env |-> env, result |-> [raised |-> r.raised, out |-> r.out]])
    /\ rProfile' = IF \E k \in 1..Len(r.called) : CallsColorProfile(r.called[k])
                   THEN << profile >> ELSE rProfile
    /\ rDark' = IF \E k \in 1..Len(r.called) : CallsHasDark(r.called[k])
                THEN << dark >> ELSE rDark

\* styles[i].render(text) on the default renderer: the getters the colours
\* call detect and cache on first use.
Render(i) ==
    /\ i \in 1..Len(styles)
    /\ Len(renders) < MaxRenders
    /\ Rendered(i,
           render_with(has_wcwidth, styles[i],
               resolved_colours([installed |-> has_wcwidth,
                                 profile |-> color_profile(rProfile, env),
                                 dark |-> has_dark_background(rDark)], styles[i]),
               text),
           color_profile(rProfile, env), has_dark_background(rDark))
    /\ UNCHANGED <<env, rlog, colorVars, resizeVars, styleVars, text, has_wcwidth, tableVars>>

\* The process environment (os.environ, the output stream) changes.
EnvChange(e) ==
    /\ e # env
    /\ env' = e
    /\ UNCHANGED <<rProfile, rDark, rlog, colorVars, resizeVars, styleVars, renderVars, tableVars>>

\* One Style, one text, no render yet, nothing detected yet.
RenderInit ==
    /\ rProfile = <<>>
    /\ rDark = <<>>
    /\ env = DumbEnv
    /\ rlog = <<>>
    /\ ColorIdle
    /\ ResizeIdle
    /\ styles \in { << s >> : s \in RenderStyles }
    /\ call = <<>>
    /\ text \in Texts
    /\ has_wcwidth \in BOOLEAN
    /\ renders = <<>>
    /\ TableIdle

\* One render call.
RenderNext == renders = <<>> /\ Render(1)

SpecRender == RenderInit /\ [][RenderNext]_vars

-----------------------------------------------------------------------------
(* Render calls while the process environment changes.                     *)

MaxShortTextLen == 2

ShortTexts == { t \in Texts : Len(t) <= MaxShortTextLen }

RepeatInit == RenderInit /\ text \in ShortTexts

RepeatNext ==
    \/ Render(1)
    \/ \E e \in RenderEnvs : EnvChange(e)

SpecRepeat == RepeatInit /\ [][RepeatNext]_vars

-----------------------------------------------------------------------------
(* Border sides switched off one at a time, and the renders compared.      *)

BorderTexts == { t \in ShortTexts : \A k \in 1..Len(t) : t[k].c \in {"a", "W", "\n"} }

BorderInit ==
    /\ RendererIdle
    /\ ColorIdle
    /\ ResizeIdle
    /\ styles = << set(NewStyle, "border_style", ascii_border) >>
    /\ call = <<>>
    /\ text \in BorderTexts
    /\ has_wcwidth \in BOOLEAN
    /\ renders = <<>>
    /\ TableIdle

BorderNext ==
    \/ \E i \in 1..MaxStyles, k \in 1..Len(BorderKeys) : Setter(i, BorderKeys[k], FALSE)
    \/ \E i \in 1..MaxStyles : Render(i)

SpecBorder == BorderInit /\ [][BorderNext]_vars

-----------------------------------------------------------------------------
(* Claims about render.                                                    *)

\* Terminal columns of a character: 2 for a double-width glyph, 0 for a
\* combining mark, 1 for another printable one; ctl is what a control
\* character is counted as (0: it occupies no column; 1: what _char_width
\* takes it for).
columns_of(ch, ctl) ==
    IF wcwidth(ch) < 0 THEN ctl ELSE wcwidth(ch)

\* Terminal columns of a line, escape sequences counting 0.
columns(line, ctl) ==
    LET stripped == strip_ansi(line)
    IN  SumSeq([k \in 1..Len(stripped) |-> columns_of(stripped[k], ctl)])

\* Terminal columns of the widest line of a text laid out with the default
\* tab width.
content_width(t, ctl) ==
    LET lines == Split(maybe_convert_tabs(t, 4, FALSE))
    IN  MaxOf([k \in 1..Len(lines) |-> columns(lines[k], ctl)])

\* C2: two calls style.render(t) on the same style and text return the same
\* string (or raise alike), whatever happens to the environment in between,
\* and a render call leaves every Style as it was.
C2_RenderIsPure ==
    /\ [](\A a, b \in 1..Len(renders) :
            renders[a].recv = renders[b].recv => renders[a].result = renders[b].result)
    /\ [][renders' # renders => styles' = styles]_vars

\* A coloured style rendered twice, the environment having changed between
\* the calls to one with another colour profile.
C2_Witness ==
    /\ Len(renders) = 2
    /\ styles[1] \in ColourStyles
    /\ detect_color_profile(renders[1].env) # detect_color_profile(renders[2].env)
    /\ \E k \in 1..Len(renders[2].result.out) : IsEsc(renders[2].result.out[k])

\* C3: with wcwidth installed, the block rendered by
\* Style().width(w).padding_left(p).align_horizontal(a) for a text whose
\* content takes at most w - p columns has every line exactly w columns
\* wide, under one reading at least of what a control character occupies.
C3_BoxModelSizing ==
    \A k \in 1..Len(renders) :
        LET s == styles[renders[k].recv]
            w == get(s, "width", 0)
            p == get(s, "padding_left", 0)
            lines == Split(renders[k].result.out)
        IN  (has_wcwidth /\ s \in BoxStyles) =>
                \E ctl \in {0, 1} :
                    w >= content_width(text, ctl) + p =>
                        \A j \in 1..Len(lines) : columns(lines[j], ctl) = w

\* C4: starting from a style with a border style and no side selected,
\* switching one side off makes the render one line lower (top, bottom) or
\* one column narrower (left, right) and changes nothing else of its size.
C4_BorderToggling ==
    \A a, b \in 1..Len(renders), k \in 1..Len(BorderKeys) :
        LET sa == styles[renders[a].recv]
            sb == styles[renders[b].recv]
            oa == renders[a].result.out
            ob == renders[b].result.out
            vertical == BorderKeys[k] \in {"border_top", "border_bottom"}
        IN  (sa = set(NewStyle, "border_style", ascii_border)
                /\ sb = set(sa, BorderKeys[k], FALSE)) =>
                /\ height(ob) = height(oa) - (IF vertical THEN 1 ELSE 0)
                /\ width(has_wcwidth, ob) = width(has_wcwidth, oa) - (IF vertical THEN 0 ELSE 1)

\* C5: with wcwidth installed, when max_width m > 0 every line of the output
\* takes at most m columns (control characters counted as none), and when
\* max_height h > 0 the output has at most h lines.
C5_TruncationBounds ==
    \A k \in 1..Len(renders) :
        LET s == styles[renders[k].recv]
            m == get(s, "max_width", 0)
            h == get(s, "max_height", 0)
            out == renders[k].result.out
            lines == Split(out)
        IN  has_wcwidth =>
                /\ m > 0 => \A j \in 1..Len(lines) : columns(lines[j], 0) <= m
                /\ h > 0 => height(out) <= h

\* C12: with wcwidth installed, the render of a text by a style that sets
\* only bold and a foreground colour has as many lines as the text, and
\* width() of it is the number of columns the text takes (tabs laid out at
\* the default tab width), under one reading at least of what a control
\* character occupies.
C12_WidthInvariance ==
    \A k \in 1..Len(renders) :
        LET s == styles[renders[k].recv]
            out == renders[k].result.out
        IN  (has_wcwidth /\ DOMAIN s.props = {"bold", "foreground"} /\ s.value = <<>>) =>
                /\ height(out) = height(text)
                /\ \E ctl \in {0, 1} : width(has_wcwidth, out) = content_width(text, ctl)

-----------------------------------------------------------------------------
(* renderer.py: a caller calls the getters and setters of one Renderer     *)
(* while the environment changes.  rlog records each call: the attribute   *)
(* ("profile" or "dark"), the operation ("get" or "set"), the value        *)
(* returned or passed, and <<v>> when _detect_* ran in the call and        *)
(* returned v (<<>> when it did not run).                                  *)

\* The number of calls a caller makes on the Renderer.
MaxCalls == 4

Logged(attr, op, value, detected) ==
    /\ Len(rlog) < MaxCalls
    /\ rlog' = Append(rlog, [attr |-> attr, op |-> op, value |-> value,
                             detected |-> detected])

\* renderer.color_profile()
CallColorProfile ==
    /\ Logged("profile", "get", color_profile(rProfile, env),
              IF rProfile = <<>> THEN << detect_color_profile(env) >> ELSE <<>>)
    /\ rProfile' = << color_profile(rProfile, env) >>
    /\ UNCHANGED <<rDark, env, colorVars, resizeVars, styleVars, renderVars, tableVars>>

\* renderer.set_color_profile(p)
CallSetColorProfile(p) ==
    /\ Logged("profile", "set", p, <<>>)
    /\ rProfile' = << p >>
    /\ UNCHANGED <<rDark, env, colorVars, resizeVars, styleVars, renderVars, tableVars>>

\* renderer.has_dark_background()
CallHasDarkBackground ==
    /\ Logged("dark", "get", has_dark_background(rDark),
              IF rDark = <<>> THEN << detect_dark_background >> ELSE <<>>)
    /\ rDark' = << has_dark_background(rDark) >>
    /\ UNCHANGED <<rProfile, env, colorVars, resizeVars, styleVars, renderVars, tableVars>>

\* renderer.set_dark_background(d)
CallSetDarkBackground(d) ==
    /\ Logged("dark", "set", d, <<>>)
    /\ rDark' = << d >>
    /\ UNCHANGED <<rProfile, env, colorVars, resizeVars, styleVars, renderVars, tableVars>>

RendererCallsInit ==
    /\ RendererInit
    /\ ColorIdle
    /\ ResizeIdle
    /\ StyleIdle
    /\ RenderIdle
    /\ TableIdle

RendererCallsNext ==
    \/ CallColorProfile
    \/ \E p \in ColorProfile : CallSetColorProfile(p)
    \/ CallHasDarkBackground
    \/ \E d \in BOOLEAN : CallSetDarkBackground(d)
    \/ \E e \in Envs : EnvChange(e)

SpecRenderer == RendererCallsInit /\ [][RendererCallsNext]_vars

\* The calls of the log on one attribute, and among the ones before call i
\* the overrides and the reads.
CallsOn(attr) == { i \in 1..Len(rlog) : rlog[i].attr = attr }
SetsBefore(attr, i) == { j \in CallsOn(attr) : j < i /\ rlog[j].op = "set" }
GetsUpTo(attr, i) == { j \in CallsOn(attr) : j <= i /\ rlog[j].op = "get" }
Last(S) == CHOOSE j \in S : \A k \in S : k <= j
Earliest(S) == CHOOSE j \in S : \A k \in S : j <= k

\* C15: in any sequence of color_profile(), set_color_profile(p),
\* has_dark_background() and set_dark_background(d) calls on one Renderer,
\* with the environment changing in between, detection runs at most once
\* for each attribute and never after an override of it; a getter returns
\* the value of the latest override of its attribute when there is one, and
\* otherwise the value that detection returned in the first getter call.
C15_DetectOnceThenCached ==
    \A attr \in {"profile", "dark"} :
        /\ Cardinality({ i \in CallsOn(attr) : rlog[i].detected # <<>> }) <= 1
        /\ \A i \in CallsOn(attr) :
               /\ rlog[i].detected # <<>> => SetsBefore(attr, i) = {}
               /\ rlog[i].op = "get" =>
                      IF SetsBefore(attr, i) # {}
                      THEN rlog[i].value = rlog[Last(SetsBefore(attr, i))].value
                      ELSE LET f == Earliest(GetsUpTo(attr, i))
                           IN  /\ rlog[f].detected # <<>>
                               /\ rlog[i].value = rlog[f].detected[1]

\* The profile is detected in the first call, read again after the
\* environment has changed to one that detects another profile, then
\* overridden and read again.
C15_Witness ==
    /\ Len(rlog) = 4
    /\ \A i \in 1..4 : rlog[i].attr = "profile"
    /\ rlog[1].op = "get" /\ rlog[1].detected # <<>>
    /\ rlog[2].op = "get" /\ rlog[2].value = rlog[1].value
    /\ rlog[3].op = "set" /\ rlog[3].value # rlog[1].value
    /\ rlog[4].op = "get" /\ rlog[4].value = rlog[3].value
    /\ detect_color_profile(env) \notin {rlog[1].value, rlog[3].value}

\* C16: the render of a style with inline set holds no line break, whatever
\* the text and the other properties of the style (padding, border,
\* margins, width, height).
C16_InlineSingleLine ==
    \A k \in 1..Len(renders) :
        (get(styles[renders[k].recv], "inline", FALSE) /\ ~renders[k].result.raised) =>
            CountNL(renders[k].result.out) = 0


-----------------------------------------------------------------------------
(* table/rows.py: StringData and Filter.  A cell is named by its position: *)
(* the string at row i, column j of the StringData is <<i, j>>, and <<>>   *)
(* is the empty string.  data is [lens, keep]: lens[i + 1] is the length   *)
(* of row i, keep is the set of rows the Filter's predicate accepts.       *)

\* The number of rows of a StringData, the length of a row, and the
\* indexes passed to at(): -MaxIndex..MaxIndex.
MaxDataRows == 2
MaxRowLen == 2
MaxIndex == 3

\* Python list indexing seq[i]: a negative index counts from the end, an
\* index outside -len..len-1 raises IndexError.
PyIndex(seq, i) ==
    IF 0 <= i /\ i < Len(seq) THEN [raised |-> FALSE, value |-> seq[i + 1]]
    ELSE IF -Len(seq) <= i /\ i < 0 THEN [raised |-> FALSE, value |-> seq[Len(seq) + i + 1]]
    ELSE [raised |-> TRUE, value |-> <<>>]

\* StringData._rows: the rows as lists of cells.
StringDataRows(lens) ==
    [i \in 1..Len(lens) |-> [j \in 1..lens[i] |-> <<i - 1, j - 1>>]]

\* StringData.at(row, col)
StringData_at(lens, row, col) ==
    LET rows == StringDataRows(lens)
    IN  IF row >= Len(rows) THEN [raised |-> FALSE, value |-> <<>>]
        ELSE LET r == PyIndex(rows, row)
             IN  IF r.raised THEN [raised |-> TRUE, value |-> <<>>]
                 ELSE IF col >= Len(r.value) THEN [raised |-> FALSE, value |-> <<>>]
                 ELSE PyIndex(r.value, col)

\* Filter.at(row, col): the loop over range(self._data.rows()), from i with
\* j accepted rows seen so far.
RECURSIVE Filter_at_from(_, _, _, _, _, _)
Filter_at_from(lens, keep, row, col, i, j) ==
    IF i >= Len(lens) THEN [raised |-> FALSE, value |-> <<>>]
    ELSE IF i \in keep
         THEN IF j = row THEN StringData_at(lens, i, col)
              ELSE Filter_at_from(lens, keep, row, col, i + 1, j + 1)
         ELSE Filter_at_from(lens, keep, row, col, i + 1, j)

Filter_at(lens, keep, row, col) == Filter_at_from(lens, keep, row, col, 0, 0)

\* Filter.rows()
Filter_rows(lens, keep) == Cardinality({ i \in 0..(Len(lens) - 1) : i \in keep })

\* The row of the StringData that row number row of the Filter shows.
RECURSIVE Filter_row_from(_, _, _, _)
Filter_row_from(keep, row, i, j) ==
    IF i \in keep /\ j = row THEN i
    ELSE Filter_row_from(keep, row, i + 1, IF i \in keep THEN j + 1 ELSE j)

\* StringData.append(row), with the length of the row.
DataAppend(n) ==
    /\ Len(data.lens) < MaxDataRows
    /\ data' = [data EXCEPT !.lens = Append(data.lens, n)]
    /\ UNCHANGED <<rendererVars, colorVars, resizeVars, styleVars, renderVars,
                   cell, table, tout>>

\* Filter.filter(predicate)
DataFilter(keep) ==
    /\ data' = [data EXCEPT !.keep = keep]
    /\ UNCHANGED <<rendererVars, colorVars, resizeVars, styleVars, renderVars,
                   cell, table, tout>>

\* StringData.at(row, col) called on the data
DataAt(row, col) ==
    /\ cell' = << [on |-> "StringData", row |-> row, col |-> col,
                   result |-> StringData_at(data.lens, row, col)] >>
    /\ UNCHANGED <<rendererVars, colorVars, resizeVars, styleVars, renderVars,
                   data, table, tout>>

\* Filter.at(row, col) called on the Filter that wraps the data
FilterAt(row, col) ==
    /\ cell' = << [on |-> "Filter", row |-> row, col |-> col,
                   result |-> Filter_at(data.lens, data.keep, row, col)] >>
    /\ UNCHANGED <<rendererVars, colorVars, resizeVars, styleVars, renderVars,
                   data, table, tout>>

\* StringData() and Filter(data): no row, every row accepted.
DataInit ==
    /\ RendererIdle
    /\ ColorIdle
    /\ ResizeIdle
    /\ StyleIdle
    /\ RenderIdle
    /\ data = [lens |-> <<>>, keep |-> 0..(MaxDataRows - 1)]
    /\ cell = <<>>
    /\ table = <<>>
    /\ tout = <<>>

DataNext ==
    \/ \E n \in 0..MaxRowLen : DataAppend(n)
    \/ \E keep \in SUBSET (0..(MaxDataRows - 1)) : DataFilter(keep)
    \/ \E row, col \in (-MaxIndex)..MaxIndex : DataAt(row, col)
    \/ \E row, col \in (-MaxIndex)..MaxIndex : FilterAt(row, col)

SpecData == DataInit /\ [][DataNext]_vars

\* The pair (row, col) names a cell of the source the last call was made on.
InRange ==
    LET c == cell[1]
    IN  IF c.on = "StringData"
        THEN /\ 0 <= c.row /\ c.row < Len(data.lens)
             /\ 0 <= c.col /\ c.col < data.lens[c.row + 1]
        ELSE /\ 0 <= c.row /\ c.row < Filter_rows(data.lens, data.keep)
             /\ 0 <= c.col
             /\ c.col < data.lens[Filter_row_from(data.keep, c.row, 0, 0) + 1]

\* C19: StringData.at(row, col) and Filter.at(row, col) called with a pair
\* that names no cell of the source, negative indexes included, do not
\* raise and return the empty string.
C19_OutOfRangeIsEmpty ==
    (cell # <<>> /\ ~InRange) =>
        /\ ~cell[1].result.raised
        /\ cell[1].result.value = <<>>

-----------------------------------------------------------------------------
(* table/table.py: the lines of str(table).  A table has one column; a     *)
(* line of the output is named by what it draws: the top border, the      *)
(* header, the separator under the header, line k of data row i, the       *)
(* separator under row i, the ellipsis row, the bottom border, or nothing  *)
(* (an empty line).  table._style_func is given by the get_height() of the *)
(* Style it returns for each data row (0: no height set); the header's     *)
(* Style has no height.  _widths and _heights, which _resize() recomputes  *)
(* in every str(table) before they are read, are not part of the state;    *)
(* _width is 0 and the left, right and column borders play no part.        *)

\* The number of data rows, the manual heights and the offsets of a table.
MaxTableRows == 3
MaxTableHeight == 8

\* The heights a cell Style asks for: none, or two lines.
RowHeightHints == {0, 2}

Line(kind, row, k) == [kind |-> kind, row |-> row, k |-> k]
EmptyLine == Line("empty", -1, 1)

\* Table(): the fields after construction.
NewTable ==
    [headers |-> FALSE, rows |-> 0,
     style_heights |-> [i \in 0..(MaxTableRows - 1) |-> 0],
     border_top |-> TRUE, border_bottom |-> TRUE, border_header |-> TRUE,
     border_row |-> FALSE,
     height |-> 0, use_manual_height |-> FALSE, offset |-> 0]

btoi(b) == IF b THEN 1 ELSE 0

\* Table._resize(): the row heights that optimized_widths() returns for
\* cells of one short line each: the header's first when there are headers.
table_heights(t) ==
    (IF t.headers THEN <<1>> ELSE <<>>)
        \o [i \in 1..t.rows |-> Max(Max(t.style_heights[i - 1], 1), 1)]

\* Table._construct_headers()
construct_headers(t) ==
    << Line("header", -1, 1) >>
        \o (IF t.border_header THEN << Line("header_separator", -1, 1) >> ELSE <<>>)

\* Table._construct_row(index, is_overflow)
construct_row(t, heights, index, is_overflow) ==
    LET h == IF is_overflow THEN 1 ELSE heights[index + btoi(t.headers) + 1]
    IN  [k \in 1..h |-> Line(IF is_overflow THEN "ellipsis" ELSE "row", index, k)]
            \o (IF t.border_row /\ index < t.rows - 1 /\ ~is_overflow
                THEN << Line("row_separator", index, 1) >> ELSE <<>>)

\* The loop of Table._construct_rows, from row_idx with rows_to_render left.
RECURSIVE construct_rows_from(_, _, _, _, _)
construct_rows_from(t, heights, needs_overflow, row_idx, rows_to_render) ==
    IF rows_to_render > 0 /\ row_idx < t.rows
    THEN construct_row(t, heights, row_idx, needs_overflow /\ rows_to_render = 1)
            \o construct_rows_from(t, heights, needs_overflow, row_idx + 1,
                                   rows_to_render - 1)
    ELSE <<>>

\* Table._construct_rows(available_lines)
construct_rows(t, heights, available_lines) ==
    LET offset_row_count == t.rows - t.offset
        rows_to_render == Max(available_lines, 1)
        needs_overflow == rows_to_render < offset_row_count
        row_idx == IF ~needs_overflow THEN t.rows - rows_to_render ELSE t.offset
    IN  construct_rows_from(t, heights, needs_overflow, row_idx, rows_to_render)

\* The rows offset..rows-1, each drawn in full.
RECURSIVE construct_all_rows(_, _, _)
construct_all_rows(t, heights, r) ==
    IF r < t.rows
    THEN construct_row(t, heights, r, FALSE) \o construct_all_rows(t, heights, r + 1)
    ELSE <<>>

\* Table._compute_height()
compute_height(t, heights) ==
    SumSeq(heights) - 1 + btoi(t.headers) + btoi(t.border_top) + btoi(t.border_bottom)
        + btoi(t.border_header) + (t.rows * btoi(t.border_row))

\* Style().max_height(n).render(result), on the lines of result.
max_height_lines(lines, n) ==
    IF n > 0 THEN SubSeq(lines, 1, Min(n, Len(lines))) ELSE lines

\* Table.__str__(): the lines of the string returned.
table_str(t) ==
    IF ~t.headers /\ t.rows = 0 THEN << EmptyLine >>
    ELSE LET heights == table_heights(t)
             top == (IF t.border_top THEN << Line("top", -1, 1) >> ELSE <<>>)
                        \o (IF t.headers THEN construct_headers(t) ELSE <<>>)
             bottom == IF t.border_bottom THEN << Line("bottom", -1, 1) >>
                       ELSE << EmptyLine >>
             top_height == Len(top)
             available == t.height - (top_height + 1)
             available_lines == IF available > t.rows THEN t.rows ELSE available
             body == IF t.rows > 0
                     THEN IF t.use_manual_height
                          THEN construct_rows(t, heights, available_lines)
                          ELSE construct_all_rows(t, heights, t.offset)
                     ELSE <<>>
         IN  max_height_lines(top \o body \o bottom, compute_height(t, heights))

\* The setters of Table change one field and return the table; the string
\* that str(table) returned is the string of the table as it was.
TableSet(t) ==
    /\ table' = t
    /\ tout' = <<>>
    /\ UNCHANGED <<rendererVars, colorVars, resizeVars, styleVars, renderVars, data, cell>>

\* table.headers("H")
TableHeaders == TableSet([table EXCEPT !.headers = TRUE])

\* table.row(cell)
TableRow == table.rows < MaxTableRows /\ TableSet([table EXCEPT !.rows = @ + 1])

\* table.style_func(fn)
TableStyleFunc(f) == TableSet([table EXCEPT !.style_heights = f])

\* table.border_top(v), border_bottom(v), border_header(v), border_row(v)
TableBorderTop(v) == TableSet([table EXCEPT !.border_top = v])
TableBorderBottom(v) == TableSet([table EXCEPT !.border_bottom = v])
TableBorderHeader(v) == TableSet([table EXCEPT !.border_header = v])
TableBorderRow(v) == TableSet([table EXCEPT !.border_row = v])

\* table.height(h)
TableHeight(h) == TableSet([table EXCEPT !.height = h, !.use_manual_height = TRUE])

\* table.offset(o)
TableOffset(o) == TableSet([table EXCEPT !.offset = o])

\* str(table)
TableStr ==
    /\ tout' = << table_str(table) >>
    /\ UNCHANGED <<rendererVars, colorVars, resizeVars, styleVars, renderVars,
                   data, cell, table>>

TableInit ==
    /\ RendererIdle
    /\ ColorIdle
    /\ ResizeIdle
    /\ StyleIdle
    /\ RenderIdle
    /\ data = <<>>
    /\ cell = <<>>
    /\ table = NewTable
    /\ tout = <<>>

TableNext ==
    \/ TableHeaders
    \/ TableRow
    \/ \E f \in [0..(MaxTableRows - 1) -> RowHeightHints] : TableStyleFunc(f)
    \/ \E v \in BOOLEAN : TableBorderTop(v)
    \/ \E v \in BOOLEAN : TableBorderBottom(v)
    \/ \E v \in BOOLEAN : TableBorderHeader(v)
    \/ \E v \in BOOLEAN : TableBorderRow(v)
    \/ \E h \in 0..MaxTableHeight : TableHeight(h)
    \/ \E o \in 0..MaxTableRows : TableOffset(o)
    \/ TableStr

SpecTable == TableInit /\ [][TableNext]_vars

\* The lines of the last str(table) that draw something, and the data rows
\* drawn among them.
DrawnLines == { i \in 1..Len(tout[1]) : tout[1][i].kind # "empty" }
DrawnRows == { tout[1][i].row : i \in { j \in DrawnLines : tout[1][j].kind = "row" } }

\* The lines of the borders, the header and its separator.
FrameLines(t) ==
    btoi(t.border_top) + btoi(t.border_bottom)
        + (IF t.headers THEN 1 + btoi(t.border_header) ELSE 0)

\* C17: a table with a manual height H that leaves room for the borders,
\* the header and one more line is rendered in at most H lines, whatever
\* the number of rows, their heights and the offset.
C17_ManualHeightBound ==
    (/\ tout # <<>>
     /\ table.use_manual_height
     /\ table.rows > 0
     /\ table.height > FrameLines(table)) =>
        Cardinality(DrawnLines) <= table.height

\* C18: no row before the offset is drawn, with or without a manual
\* height, and the rows drawn are consecutive rows in data order, the first
\* one being the row at the offset.
C18_OffsetRows ==
    tout # <<>> =>
        /\ \A r \in DrawnRows : r >= table.offset
        /\ DrawnRows # {} => \E m \in 0..table.rows : DrawnRows = table.offset..m
        /\ \A i, j \in DrawnLines :
               (i < j /\ tout[1][i].kind = "row" /\ tout[1][j].kind = "row") =>
                   tout[1][i].row <= tout[1][j].row

\* The lines of the last str(table).
OutLines == { tout[1][i] : i \in 1..Len(tout[1]) }

\* C27: without a manual height the string of a table that has headers or
\* rows keeps every line: the top border when enabled, the header and, when
\* enabled, its separator, every line of every data row from the offset on,
\* and the bottom border when enabled, for every choice of the border flags,
\* with and without headers.
C27_NoLineRemoved ==
    (/\ tout # <<>>
     /\ ~table.use_manual_height
     /\ (table.headers \/ table.rows > 0)) =>
        /\ table.border_top => Line("top", -1, 1) \in OutLines
        /\ table.headers => Line("header", -1, 1) \in OutLines
        /\ (table.headers /\ table.border_header) =>
               Line("header_separator", -1, 1) \in OutLines
        /\ \A r \in table.offset..(table.rows - 1) :
               \A k \in 1..Max(table.style_heights[r], 1) : Line("row", r, k) \in OutLines
        /\ table.border_bottom => Line("bottom", -1, 1) \in OutLines

-----------------------------------------------------------------------------
(* Borders with unset glyphs: style.border(b, top, right, bottom, left)    *)
(* for every Border b whose glyphs are those of ascii_border or unset, and *)
(* every choice of sides.                                                  *)

\* A glyph of ascii_border, or the empty string.
Glyphs(g) == { <<>>, g }

GlyphBorders ==
    { Border(top, bottom, left, right, top_left, top_right, bottom_left, bottom_right) :
        top \in Glyphs(ascii_border.top), bottom \in Glyphs(ascii_border.bottom),
        left \in Glyphs(ascii_border.left), right \in Glyphs(ascii_border.right),
        top_left \in Glyphs(ascii_border.top_left),
        top_right \in Glyphs(ascii_border.top_right),
        bottom_left \in Glyphs(ascii_border.bottom_left),
        bottom_right \in Glyphs(ascii_border.bottom_right) }

EdgeStyles ==
    { set_sides(set(NewStyle, "border_style", b), BorderKeys, <<t, r, bo, l>>) :
        b \in GlyphBorders, t \in BOOLEAN, r \in BOOLEAN, bo \in BOOLEAN, l \in BOOLEAN }

EdgeInit ==
    /\ RendererIdle
    /\ ColorIdle
    /\ ResizeIdle
    /\ styles \in { << s >> : s \in EdgeStyles }
    /\ call = <<>>
    /\ text \in BorderTexts
    /\ has_wcwidth \in BOOLEAN
    /\ renders = <<>>
    /\ TableIdle

EdgeNext == renders = <<>> /\ Render(1)

SpecEdges == EdgeInit /\ [][EdgeNext]_vars

\* C20: with wcwidth installed, every line of a block rendered with a
\* border (the top edge, the rows with their left and right glyphs, the
\* bottom edge) takes the same number of columns, whatever glyphs of the
\* Border are unset and whatever sides are enabled.
C20_EdgesAsWideAsRows ==
    \A k \in 1..Len(renders) :
        LET lines == Split(renders[k].result.out)
        IN  (has_wcwidth /\ is_set(styles[renders[k].recv], "border_style")) =>
                \A i, j \in 1..Len(lines) : columns(lines[i], 0) = columns(lines[j], 0)


\* The escape sequences of a line, in order.
Escapes(line) == SelectSeq(line, IsEsc)

\* C30: a line of the output of a render with max_width that holds an SGR
\* sequence ends its styling with the reset sequence: the last escape
\* sequence of the line is the reset, no attribute stays active after it.
C30_TruncatedLinesReset ==
    \A k \in 1..Len(renders) :
        LET s == styles[renders[k].recv]
            lines == Split(renders[k].result.out)
        IN  (get(s, "max_width", 0) > 0 /\ ~renders[k].result.raised) =>
                \A j \in 1..Len(lines) :
                    Escapes(lines[j]) # <<>> =>
                        Escapes(lines[j])[Len(Escapes(lines[j]))] = Esc(<<0>>)

-----------------------------------------------------------------------------
(* A wrapped cell: the row height the optimizer computes for a table of    *)
(* one data cell with wrap on and no style hints, and the cell as          *)
(* Table._construct_row renders it at that height.                         *)

MaxCellLen == 6
MaxColWidth == 4

CellChars == {"a", " ", "\n"}
CellTexts == UNION { [1..n -> { Ch(c) : c \in CellChars }] : n \in 0..MaxCellLen }

\* table/resizing.py _visible_width(s): 2 for a wide character, 1 for any
\* other one, the escape sequences stripped.
cell_visible_width(s) ==
    LET stripped == strip_ansi(s)
    IN  SumSeq([i \in 1..Len(stripped) |-> IF stripped[i].c = "W" THEN 2 ELSE 1])

\* _word_wrap_height(content, col_width)
content_wrap_height(content, col_width) ==
    IF col_width <= 0 THEN 1
    ELSE LET lines == Split(ReplaceCRLF(content))
         IN  SumSeq([i \in 1..Len(lines) |->
                 word_wrap_height(cell_visible_width(lines[i]), col_width)])

\* Table._construct_row: the Style a cell is rendered with.
construct_cell_style(cell_style, height_, width_) ==
    LET h_margins == get(cell_style, "margin_left", 0) + get(cell_style, "margin_right", 0)
        v_margins == get(cell_style, "margin_top", 0) + get(cell_style, "margin_bottom", 0)
    IN  set(set(set(set(cell_style, "height", height_ - v_margins),
                    "max_height", height_),
                "width", width_ - h_margins),
            "max_width", width_)

\* Resizer._expand_row_heights(col_widths) for the one cell: no padding.
ExpandCellHeight ==
    /\ row_heights_out = <<>>
    /\ row_heights_out' = << Max(1, content_wrap_height(text, col_widths[1])) >>
    /\ UNCHANGED <<rendererVars, colorVars, resizer, col_widths, pc, styleVars, renderVars,
                   tableVars>>

\* Table._construct_row(0, False), up to the render of the cell.
ConstructCell ==
    /\ row_heights_out # <<>>
    /\ styles = <<>>
    /\ styles' = << construct_cell_style(NewStyle, row_heights_out[1], col_widths[1]) >>
    /\ UNCHANGED <<rendererVars, colorVars, resizeVars, call, renderVars, tableVars>>

WrapInit ==
    /\ rProfile = <<>>
    /\ rDark = <<>>
    /\ env = DumbEnv
    /\ rlog = <<>>
    /\ ColorIdle
    /\ resizer = <<>>
    /\ col_widths \in { << w >> : w \in 1..MaxColWidth }
    /\ pc = "idle"
    /\ row_heights_out = <<>>
    /\ StyleIdle
    /\ text \in CellTexts
    /\ has_wcwidth \in BOOLEAN
    /\ renders = <<>>
    /\ TableIdle

WrapNext ==
    \/ ExpandCellHeight
    \/ ConstructCell
    \/ (renders = <<>> /\ Render(1))

SpecWrap == WrapInit /\ [][WrapNext]_vars

\* C28: with wrapping on, the row height the optimizer computes is at least
\* the number of lines into which Style's word wrap breaks the cell at the
\* width of the column, so that max_height cuts nothing off the cell: the
\* cell rendered without max_height is the same.
C28_HeightCoversWrappedCell ==
    \A k \in 1..Len(renders) :
        LET s == styles[renders[k].recv]
            ctx == [installed |-> has_wcwidth,
                    profile |-> color_profile(rProfile, env),
                    dark |-> has_dark_background(rDark)]
        IN  /\ row_heights_out[1] >=
                   Len(Split(word_wrap(has_wcwidth, ReplaceCRLF(text), col_widths[1])))
            /\ renders[k].result.out = render(ctx, unset(s, "max_height"), text).out



-----------------------------------------------------------------------------
(* table/table.py: the characters of str(table), for a table without a     *)
(* style function, wrapping, manual height or offset, whose cells are      *)
(* words without newlines.  Every row is then one line high.               *)

\* The loop of _expand_table_width, run to its end.
RECURSIVE expand_table_width(_, _)
expand_table_width(r, cw) ==
    IF total_width(r, cw) >= r.table_width THEN [raised |-> FALSE, widths |-> cw]
    ELSE IF cw = <<>> THEN [raised |-> TRUE, widths |-> cw]
    ELSE expand_table_width(r,
             [cw EXCEPT ![shorter_scan(r, cw, 1, 1, BIG)] = @ + 1])

\* The loop of shrink_biggest(very_big_only), run to its end.
RECURSIVE shrink_biggest(_, _, _)
shrink_biggest(r, cw, very_big_only) ==
    LET big_idx == big_scan(r, cw, very_big_only, 1, 0, -BIG - 1)
    IN  IF total_width(r, cw) <= r.table_width THEN cw
        ELSE IF big_idx < 1 \/ cw[big_idx] = 0 THEN cw
        ELSE shrink_biggest(r, [cw EXCEPT ![big_idx] = @ - 1], very_big_only)

\* The loop of shrink_to_median(), run to its end.
RECURSIVE shrink_to_median(_, _)
shrink_to_median(r, cw) ==
    LET biggest_diff_idx == diff_scan(r, cw, 1, 0, -BIG - 1)
    IN  IF total_width(r, cw) <= r.table_width THEN cw
        ELSE IF biggest_diff_idx < 1 \/ cw[biggest_diff_idx] = 0 THEN cw
        ELSE shrink_to_median(r, [cw EXCEPT ![biggest_diff_idx] = @ - 1])

\* _shrink_table_width()
shrink_table_width(r) ==
    [raised |-> FALSE,
     widths |-> shrink_biggest(r,
                    shrink_to_median(r, shrink_biggest(r, max_column_widths(r), TRUE)),
                    FALSE)]

\* Resizer.optimized_widths(): the column widths, or the IndexError.
optimized_widths(r0) ==
    LET tw == IF r0.table_width <= 0 THEN detect_table_width(r0) ELSE r0.table_width
        r == [r0 EXCEPT !.table_width = tw]
    IN  IF max_total(r) <= tw THEN expand_table_width(r, max_column_widths(r))
        ELSE shrink_table_width(r)


\* rounded_border(): thirteen glyphs, each one single-width character,
\* written here with the characters of ascii_border.
rounded_border ==
    [top |-> Ch("-"), bottom |-> Ch("-"), left |-> Ch("|"), right |-> Ch("|"),
     top_left |-> Ch("+"), top_right |-> Ch("+"),
     bottom_left |-> Ch("+"), bottom_right |-> Ch("+"),
     middle_left |-> Ch("+"), middle_right |-> Ch("+"), middle |-> Ch("+"),
     middle_top |-> Ch("+"), middle_bottom |-> Ch("+")]

\* Table(): the fields after construction that the characters depend on.
NewTextTable ==
    [headers |-> <<>>, rows |-> <<>>, width |-> 0,
     border_top |-> TRUE, border_bottom |-> TRUE, border_left |-> TRUE,
     border_right |-> TRUE, border_header |-> TRUE, border_column |-> TRUE,
     border_row |-> FALSE]

\* StringData.columns() and data_to_matrix(data)
data_columns(rows) == MaxOf([i \in 1..Len(rows) |-> Len(rows[i])])

data_to_matrix(rows) ==
    [i \in 1..Len(rows) |->
        [c \in 1..data_columns(rows) |->
            IF c > Len(rows[i]) THEN <<>> ELSE rows[i][c]]]

\* Table.__str__: the headers padded to the number of columns.
padded_headers(t) ==
    IF t.headers = <<>> THEN <<>>
    ELSE IF Len(t.headers) >= data_columns(t.rows) THEN t.headers
    ELSE t.headers \o [k \in 1..(data_columns(t.rows) - Len(t.headers)) |-> <<>>]

\* Table._resize(): the Resizer of the table, wrap on (the default), no
\* style hints.
table_resizer(t) ==
    LET widths_of(cells) == [c \in 1..Len(cells) |-> cell_visible_width(cells[c])]
        matrix == data_to_matrix(t.rows)
        r == NewResizer(t.width, widths_of(padded_headers(t)),
                        [i \in 1..Len(matrix) |-> widths_of(matrix[i])])
    IN  WithRowHints(
            WithHints(r, t.border_column,
                      [j \in 1..Len(r.columns) |-> [x_padding |-> 0, width |-> 0]]),
            TRUE, [i \in 1..Len(r.all_rows) |-> [height |-> 0, y_padding |-> 0]])

\* s.rstrip("\n")
RECURSIVE rstrip_newlines(_)
rstrip_newlines(s) ==
    IF s # <<>> /\ s[Len(s)] = NL THEN rstrip_newlines(SubSeq(s, 1, Len(s) - 1)) ELSE s

\* join_horizontal(Top, *strs)
join_horizontal_top(installed, strs) ==
    LET blocks == [j \in 1..Len(strs) |-> Split(strs[j])]
        max_widths == [j \in 1..Len(strs) |-> widest_line(installed, blocks[j])]
        max_height == MaxOf([j \in 1..Len(strs) |-> Len(blocks[j])])
        line(j, row) == IF row <= Len(blocks[j]) THEN blocks[j][row] ELSE <<>>
    IN  IF strs = <<>> THEN <<>>
        ELSE IF Len(strs) = 1 THEN strs[1]
        ELSE JoinLines([row \in 1..max_height |->
                 Join([j \in 1..Len(strs) |->
                          line(j, row)
                              \o Spaces(max_widths[j] - visible_width(installed, line(j, row)))],
                      <<>>)])

\* The horizontal line of a border or separator: the glyph fill over every
\* column, the glyph cross between two columns.
border_line(t, n, widths, fill, cross) ==
    Join([i \in 1..n |->
             Repeat(fill, widths[i])
                 \o (IF i < n /\ t.border_column THEN << cross >> ELSE <<>>)],
         <<>>)

\* Table._construct_top_border() and _construct_bottom_border()
construct_top_border(t, widths) ==
    (IF t.border_left THEN << rounded_border.top_left >> ELSE <<>>)
        \o border_line(t, Len(widths), widths, rounded_border.top, rounded_border.middle_top)
        \o (IF t.border_right THEN << rounded_border.top_right >> ELSE <<>>)

construct_bottom_border(t, widths) ==
    (IF t.border_left THEN << rounded_border.bottom_left >> ELSE <<>>)
        \o border_line(t, Len(widths), widths, rounded_border.bottom,
                       rounded_border.middle_bottom)
        \o (IF t.border_right THEN << rounded_border.bottom_right >> ELSE <<>>)

\* Table._construct_headers(), the characters around the rendered cells.
headers_text(t, rendered, widths) ==
    LET cells == Join([i \in 1..Len(rendered) |->
                          rendered[i]
                              \o (IF i < Len(rendered) /\ t.border_column
                                  THEN << rounded_border.left >> ELSE <<>>)],
                      <<>>)
        right == IF t.border_right THEN << rounded_border.right >> ELSE <<>>
    IN  (IF t.border_left THEN << rounded_border.left >> ELSE <<>>) \o cells \o right
            \o (IF t.border_header
                THEN << NL >>
                        \o (IF t.border_left THEN << rounded_border.middle_left >> ELSE <<>>)
                        \o border_line(t, Len(rendered), widths, rounded_border.top,
                                       rounded_border.middle)
                        \o (IF t.border_right THEN << rounded_border.middle_right >>
                            ELSE <<>>)
                ELSE <<>>)

\* Table._construct_row(index, False), the characters around the rendered
\* cells; index counts from 0.
row_text(installed, t, index, rendered, widths, heights) ==
    LET ncols == data_columns(t.rows)
        height_ == heights[index + btoi(t.headers # <<>>) + 1]
        left_border == Join([k \in 1..height_ |-> << rounded_border.left, NL >>], <<>>)
        right_border == Join([k \in 1..height_ |-> << rounded_border.right, NL >>], <<>>)
        cell_at(c) == << rendered[c] >>
                          \o (IF c < ncols /\ t.border_column THEN << left_border >>
                              ELSE <<>>)
        cells == (IF t.border_left THEN << left_border >> ELSE <<>>)
                     \o Join([c \in 1..ncols |-> cell_at(c)], <<>>)
                     \o (IF t.border_right THEN << right_border >> ELSE <<>>)
        stripped == [j \in 1..Len(cells) |-> rstrip_newlines(cells[j])]
    IN  join_horizontal_top(installed, stripped) \o << NL >>
            \o (IF t.border_row /\ index < Len(t.rows) - 1
                THEN << rounded_border.middle_left >>
                        \o border_line(t, Len(widths), widths, rounded_border.bottom,
                                       rounded_border.middle)
                        \o << rounded_border.middle_right, NL >>
                ELSE <<>>)

\* Table._compute_height() for the heights of _resize().
compute_text_height(t, heights) ==
    SumSeq(heights) - 1 + btoi(t.headers # <<>>) + btoi(t.border_top)
        + btoi(t.border_bottom) + btoi(t.border_header)
        + (Len(t.rows) * btoi(t.border_row))

\* Table.__str__(): the parts joined, before the limits are applied.
\* lines[1] holds the rendered cells of the headers, lines[i + 1] those of
\* row i.
table_parts(installed, t, widths, heights, lines) ==
    (IF t.border_top THEN construct_top_border(t, widths) \o << NL >> ELSE <<>>)
        \o (IF t.headers # <<>> THEN headers_text(t, lines[1], widths) \o << NL >>
            ELSE <<>>)
        \o Join([i \in 1..Len(t.rows) |->
                    row_text(installed, t, i - 1, lines[i + 1], widths, heights)], <<>>)
        \o (IF t.border_bottom THEN construct_bottom_border(t, widths) ELSE <<>>)

\* Table._resize() and the cells in the order in which __str__ renders
\* them: the headers, then the rows from the first to the last.
table_plan(t) ==
    LET r == table_resizer(t)
        o == optimized_widths(r)
        heights == IF o.raised THEN <<>> ELSE expand_row_heights(r, o.widths)
        hs == padded_headers(t)
        matrix == data_to_matrix(t.rows)
        line(cells, height_) ==
            [c \in 1..Len(cells) |->
                [text |-> cells[c], height |-> height_, width |-> o.widths[c]]]
    IN  [raised |-> o.raised, widths |-> o.widths, heights |-> heights,
         cells |-> (IF hs = <<>> THEN <<>> ELSE line(hs, heights[1]))
                       \o Join([i \in 1..Len(matrix) |->
                                   line(matrix[i], heights[i + btoi(hs # <<>>)])],
                               <<>>)]

\* The k-th Style.render call of __str__: a cell with the Style of
\* _construct_headers and _construct_row, or, after the last cell, the joined
\* parts with the limits of the table.  outs holds the earlier renders.
table_request(installed, t, plan, k, outs) ==
    LET nh == Len(padded_headers(t))
        ncols == data_columns(t.rows)
        lines == [i \in 1..(Len(t.rows) + 1) |->
                     IF i = 1 THEN SubSeq(outs, 1, nh)
                     ELSE SubSeq(outs, nh + (i - 2) * ncols + 1, nh + (i - 1) * ncols)]
        limit == set(NewStyle, "max_height", compute_text_height(t, plan.heights))
    IN  IF k <= Len(plan.cells)
        THEN [style |-> construct_cell_style(NewStyle, plan.cells[k].height,
                                             plan.cells[k].width),
              text |-> plan.cells[k].text]
        ELSE [style |-> IF t.width > 0 THEN set(limit, "max_width", t.width) ELSE limit,
              text |-> table_parts(installed, t, plan.widths, plan.heights, lines)]
\* The tables whose characters are drawn: up to three headers over up to two
\* columns of data, every choice of the seven border flags, and the
\* requested widths 0 (none) to MaxTextTableWidth.
MaxTextTableWidth == 6

Word(chars) == [i \in 1..Len(chars) |-> Ch(chars[i])]

TextHeaders ==
    { <<>>, << Word(<<"a">>) >>, << Word(<<"a">>), Word(<<"a", "a">>) >>,
      << Word(<<"a">>), Word(<<"W">>), Word(<<"a">>) >> }

TextRows ==
    { <<>>,
      << << Word(<<"W">>) >> >>,
      << << Word(<<"a", "W">>), Word(<<"a">>) >> >>,
      << << Word(<<"a", "a", "a">>), Word(<<"W", "W">>) >>, << Word(<<"a">>) >> >> }

TextTables ==
    { [NewTextTable EXCEPT
          !.headers = hs, !.rows = rows, !.width = w,
          !.border_top = bt, !.border_bottom = bb, !.border_left = bl,
          !.border_right = br, !.border_header = bh, !.border_column = bc,
          !.border_row = brow] :
        hs \in TextHeaders, rows \in TextRows, w \in 0..MaxTextTableWidth,
        bt \in BOOLEAN, bb \in BOOLEAN, bl \in BOOLEAN, br \in BOOLEAN,
        bh \in BOOLEAN, bc \in BOOLEAN, brow \in BOOLEAN }

\* str(table), the characters, one Style.render call at a time: renders
\* holds the calls made so far, and the last one gives the string returned.
\* A table without headers and rows returns "" and the IndexError of the
\* optimizer leaves __str__ before any call.
TableText ==
    /\ tout = <<>>
    /\ LET ctx == [installed |-> has_wcwidth,
                   profile |-> color_profile(rProfile, env),
                   dark |-> has_dark_background(rDark)]
           plan == table_plan(table)
           k == Len(renders) + 1
           outs == [i \in 1..Len(renders) |-> renders[i].result.out]
           req == table_request(has_wcwidth, table, plan, k, outs)
       IN  IF table.headers = <<>> /\ table.rows = <<>>
           THEN tout' = << [raised |-> FALSE, out |-> <<>>] >> /\ UNCHANGED renders
           ELSE IF plan.raised
           THEN tout' = << [raised |-> TRUE, out |-> <<>>] >> /\ UNCHANGED renders
           ELSE /\ renders' = Append(renders,
                                     [recv |-> k, env |-> env,
                                      result |-> render(ctx, req.style, req.text)])
                /\ tout' = IF k <= Len(plan.cells) THEN <<>>
                           ELSE << [raised |-> FALSE, out |-> renders'[k].result.out] >>
    /\ UNCHANGED <<rendererVars, colorVars, resizeVars, styleVars, text, has_wcwidth,
                   data, cell, table>>

TextTableInit ==
    /\ RendererIdle
    /\ ColorIdle
    /\ ResizeIdle
    /\ StyleIdle
    /\ text = <<>>
    /\ has_wcwidth \in BOOLEAN
    /\ renders = <<>>
    /\ data = <<>>
    /\ cell = <<>>
    /\ table \in TextTables
    /\ tout = <<>>

TextTableNext == TableText

SpecTextTable == TextTableInit /\ [][TextTableNext]_vars

\* C29: with wcwidth installed every line of str(table) takes the same
\* number of terminal columns, for any number of headers against the
\* columns of the data, any border flags and any requested width.
C29_LinesEquallyWide ==
    (tout # <<>> /\ has_wcwidth /\ ~tout[1].raised) =>
        LET lines == Split(tout[1].out)
        IN  \A i, j \in 1..Len(lines) : columns(lines[i], 0) = columns(lines[j], 0)


=============================================================================
